---- MODULE Spec2Model ----
(***************************************************************************)
(* Semantic conflict detection of auto-claude/merge:                       *)
(* the symbol extractor, the four detectors and the aggregator of          *)
(* semantic_conflict_detector.py.                                          *)
(*                                                                         *)
(* Python values are modelled as follows.                                  *)
(*   str            a TLA+ string                                          *)
(*   Optional[x]    <<>> for None, <<x>> otherwise                         *)
(*   list           a sequence                                             *)
(*   dict           a sequence of [key, value] records in insertion order; *)
(*                  assigning to a key already present keeps its position  *)
(*   ast node       a record whose field "type" is the node class          *)
(*   source text    [syntax_ok, tree]: what ast.parse does with the text,  *)
(*                  raise SyntaxError or return the Module tree            *)
(***************************************************************************)
EXTENDS Integers, Sequences, FiniteSets, TLC

(***************************************************************************)
(* Strings                                                                 *)
(***************************************************************************)

\* Python's `sub in s` for two strings.
StrContains(s, sub) ==
    \E i \in 1..(Len(s) - Len(sub) + 1) : SubSeq(s, i, i + Len(sub) - 1) = sub

\* Python's s.startswith(prefix).
StartsWith(s, prefix) ==
    Len(s) >= Len(prefix) /\ SubSeq(s, 1, Len(prefix)) = prefix

UpperChars == "ABCDEFGHIJKLMNOPQRSTUVWXYZ"
LowerChars == "abcdefghijklmnopqrstuvwxyz"

\* str.lower() of one character.
LowerChar(c) ==
    IF \E i \in 1..Len(UpperChars) : SubSeq(UpperChars, i, i) = c
    THEN LET i == CHOOSE j \in 1..Len(UpperChars) : SubSeq(UpperChars, j, j) = c
         IN  SubSeq(LowerChars, i, i)
    ELSE c

RECURSIVE StrLower(_)
\* str.lower().
StrLower(s) ==
    IF Len(s) = 0 THEN ""
    ELSE LowerChar(SubSeq(s, 1, 1)) \o StrLower(SubSeq(s, 2, Len(s)))

\* Index of the last occurrence of the one-character string c in s, 0 if none.
LastIndexOf(s, c) ==
    LET hits == {i \in 1..Len(s) : SubSeq(s, i, i) = c}
    IN  IF hits = {} THEN 0 ELSE CHOOSE i \in hits : \A j \in hits : j <= i

\* pathlib: Path(p).name, the final path component.
PathName(p) == SubSeq(p, LastIndexOf(p, "/") + 1, Len(p))

\* pathlib: Path(p).suffix, the final component's last dot and what follows,
\* empty when there is no dot, or the only dot leads or ends the name.
PathSuffix(p) ==
    LET name == PathName(p)
        i    == LastIndexOf(name, ".")
    IN  IF i > 1 /\ i < Len(name) THEN SubSeq(name, i, Len(name)) ELSE ""

(***************************************************************************)
(* Optional values and insertion-ordered dicts                             *)
(***************************************************************************)

None == <<>>
Some(x) == <<x>>
IsNone(o) == o = <<>>
Value(o) == o[1]

EmptyDict == <<>>

DictHas(d, k) == \E i \in 1..Len(d) : d[i].key = k

DictGet(d, k) == d[CHOOSE i \in 1..Len(d) : d[i].key = k].value

\* d[k] = v
DictSet(d, k, v) ==
    IF DictHas(d, k)
    THEN [i \in 1..Len(d) |-> IF d[i].key = k THEN [key |-> k, value |-> v] ELSE d[i]]
    ELSE Append(d, [key |-> k, value |-> v])

DictKeys(d) == [i \in 1..Len(d) |-> d[i].key]

\* Python's str(list_of_ints), as the f-strings of the descriptions print it.
RECURSIVE JoinInts(_)
JoinInts(xs) ==
    IF Len(xs) = 0 THEN ""
    ELSE IF Len(xs) = 1 THEN ToString(xs[1])
    ELSE ToString(xs[1]) \o ", " \o JoinInts(Tail(xs))

ListRepr(xs) == "[" \o JoinInts(xs) \o "]"

(***************************************************************************)
(* Abstract syntax trees (the node classes of Python's ast the extractor   *)
(* meets in the texts below)                                               *)
(***************************************************************************)

Load == "Load"
Store == "Store"

Name(id, ctx, lineno) == [type |-> "Name", id |-> id, ctx |-> ctx, lineno |-> lineno]
Constant(repr, lineno) == [type |-> "Constant", repr |-> repr, lineno |-> lineno]
Attribute(value, attr, lineno) ==
    [type |-> "Attribute", value |-> value, attr |-> attr, lineno |-> lineno]
Subscript(value, slice, lineno) ==
    [type |-> "Subscript", value |-> value, slice |-> slice, lineno |-> lineno]
BinOp(left, op, right, lineno) ==
    [type |-> "BinOp", left |-> left, op |-> op, right |-> right, lineno |-> lineno]
TupleNode(elts, lineno) == [type |-> "Tuple", elts |-> elts, lineno |-> lineno]
DictNode(lineno) == [type |-> "Dict", lineno |-> lineno]
Call(func, args, lineno) ==
    [type |-> "Call", func |-> func, args |-> args, lineno |-> lineno]

alias(name, asname) == [type |-> "alias", name |-> name, asname |-> asname]
arg(name, annotation) == [type |-> "arg", arg |-> name, annotation |-> annotation]

Import(names, lineno) == [type |-> "Import", names |-> names, lineno |-> lineno]
ImportFrom(module, names, lineno) ==
    [type |-> "ImportFrom", module |-> module, names |-> names, lineno |-> lineno]
FunctionDef(name, args, body, returns, lineno) ==
    [type |-> "FunctionDef", name |-> name, args |-> args, body |-> body,
     returns |-> returns, lineno |-> lineno]
AsyncFunctionDef(name, args, body, returns, lineno) ==
    [type |-> "AsyncFunctionDef", name |-> name, args |-> args, body |-> body,
     returns |-> returns, lineno |-> lineno]
ClassDef(name, bases, body, lineno) ==
    [type |-> "ClassDef", name |-> name, bases |-> bases, body |-> body, lineno |-> lineno]
Assign(targets, value, lineno) ==
    [type |-> "Assign", targets |-> targets, value |-> value, lineno |-> lineno]
AnnAssign(target, annotation, value, lineno) ==
    [type |-> "AnnAssign", target |-> target, annotation |-> annotation,
     value |-> value, lineno |-> lineno]
Return(value, lineno) == [type |-> "Return", value |-> value, lineno |-> lineno]
Expr(value, lineno) == [type |-> "Expr", value |-> value, lineno |-> lineno]
Pass(lineno) == [type |-> "Pass", lineno |-> lineno]
Module(body) == [type |-> "Module", body |-> body]

\* The annotations of a function's parameters, in order (arguments -> arg ->
\* annotation), as ast.iter_child_nodes reaches them.
ArgAnnotations(args) ==
    LET annotated == SelectSeq(args, LAMBDA a : ~IsNone(a.annotation))
    IN  [i \in 1..Len(annotated) |-> Value(annotated[i].annotation)]

\* ast.iter_child_nodes: the child nodes that carry symbols, in _fields order.
Children(node) ==
    CASE node.type = "Module" -> node.body
      [] node.type \in {"FunctionDef", "AsyncFunctionDef"} ->
            ArgAnnotations(node.args) \o node.body \o node.returns
      [] node.type = "ClassDef" -> node.bases \o node.body
      [] node.type = "Assign" -> node.targets \o <<node.value>>
      [] node.type = "AnnAssign" -> <<node.target, node.annotation>> \o node.value
      [] node.type = "Return" -> node.value
      [] node.type = "Expr" -> <<node.value>>
      [] node.type = "Call" -> <<node.func>> \o node.args
      [] node.type = "Attribute" -> <<node.value>>
      [] node.type = "Subscript" -> <<node.value, node.slice>>
      [] node.type = "BinOp" -> <<node.left, node.right>>
      [] node.type = "Tuple" -> node.elts
      [] OTHER -> <<>>

RECURSIVE unparse(_)
RECURSIVE unparse_elts(_)
\* ast.unparse of an annotation expression: the normalised source text.
unparse(node) ==
    CASE node.type = "Name" -> node.id
      [] node.type = "Constant" -> node.repr
      [] node.type = "Attribute" -> unparse(node.value) \o "." \o node.attr
      [] node.type = "Subscript" ->
            unparse(node.value) \o "[" \o unparse(node.slice) \o "]"
      [] node.type = "BinOp" ->
            unparse(node.left) \o " " \o node.op \o " " \o unparse(node.right)
      [] node.type = "Tuple" -> unparse_elts(node.elts)
      [] OTHER -> ""

unparse_elts(elts) ==
    IF Len(elts) = 0 THEN ""
    ELSE IF Len(elts) = 1 THEN unparse(elts[1])
    ELSE unparse(elts[1]) \o ", " \o unparse_elts(Tail(elts))

(***************************************************************************)
(* SymbolTable                                                             *)
(***************************************************************************)

SymbolTable ==
    [definitions |-> EmptyDict, usages |-> EmptyDict, imports |-> EmptyDict,
     function_calls |-> EmptyDict, function_signatures |-> EmptyDict]

add_definition(tbl, name, def_type, line, scope) ==
    [tbl EXCEPT !.definitions = DictSet(@, name, <<def_type, line, scope>>)]

add_usage(tbl, name, line) ==
    [tbl EXCEPT !.usages =
        DictSet(@, name, (IF DictHas(@, name) THEN DictGet(@, name) ELSE <<>>) \o <<line>>)]

add_import(tbl, symbol, module) ==
    [tbl EXCEPT !.imports = DictSet(@, symbol, module)]

add_function_call(tbl, func_name, line) ==
    [tbl EXCEPT !.function_calls =
        DictSet(@, func_name,
                (IF DictHas(@, func_name) THEN DictGet(@, func_name) ELSE <<>>) \o <<line>>)]

add_function_signature(tbl, func_name, return_type) ==
    [tbl EXCEPT !.function_signatures = DictSet(@, func_name, return_type)]

(***************************************************************************)
(* Source texts.  A text is named by a string; SourceTexts gives what      *)
(* ast.parse makes of it.  The texts are those of                          *)
(* __tests__/test_semantic_conflict_detector.py (each starts with an empty *)
(* line, so the first statement is on line 2) and variants of them.        *)
(***************************************************************************)

\* def foo():
\*     pass
DefFooPass == FunctionDef("foo", <<>>, <<Pass(3)>>, None, 2)

\* def process(data: Dict[str, int]) -> int:
\*     return sum(data.values())
DefProcess(line) ==
    FunctionDef("process",
        <<arg("data", Some(Subscript(Name("Dict", Load, line),
                                     TupleNode(<<Name("str", Load, line),
                                                 Name("int", Load, line)>>, line),
                                     line)))>>,
        <<Return(Some(Call(Name("sum", Load, line + 1),
                           <<Call(Attribute(Name("data", Load, line + 1), "values", line + 1),
                                  <<>>, line + 1)>>,
                           line + 1)), line + 1)>>,
        Some(Name("int", Load, line)), line)

\* def get_user() -> <returns>:
\*     return <value>
DefGetUser(returns, value) ==
    FunctionDef("get_user", <<>>, <<Return(Some(value), 3)>>, returns, 2)

UserOrNone == BinOp(Name("User", Load, 2), "|", Constant("None", 2), 2)
OptionalUser == Subscript(Name("Optional", Load, 2), Name("User", Load, 2), 2)
NewUser == Call(Name("User", Load, 3), <<>>, 3)

SourceTexts ==
    [\* def foo(): pass / def caller(): return 5
     caller_plain |->
        [syntax_ok |-> TRUE, raises |-> None,
         tree |-> Module(<<DefFooPass,
                           FunctionDef("caller", <<>>, <<Return(Some(Constant("5", 6)), 6)>>,
                                       None, 5)>>)],
     \* def foo(): pass / def caller(): result = foo(); return result
     calls_foo |->
        [syntax_ok |-> TRUE, raises |-> None,
         tree |-> Module(<<DefFooPass,
                           FunctionDef("caller", <<>>,
                               <<Assign(<<Name("result", Store, 6)>>,
                                        Call(Name("foo", Load, 6), <<>>, 6), 6),
                                 Return(Some(Name("result", Load, 7)), 7)>>,
                               None, 5)>>)],
     \* def bar(): pass / def caller(): bar()
     calls_bar |->
        [syntax_ok |-> TRUE, raises |-> None,
         tree |-> Module(<<FunctionDef("bar", <<>>, <<Pass(3)>>, None, 2),
                           FunctionDef("caller", <<>>,
                               <<Expr(Call(Name("bar", Load, 6), <<>>, 6), 6)>>,
                               None, 5)>>)],
     \* def foo(): return {} / def process(data: Dict[str, int]) -> int: ...
     uses_Dict |->
        [syntax_ok |-> TRUE, raises |-> None,
         tree |-> Module(<<FunctionDef("foo", <<>>, <<Return(Some(DictNode(3)), 3)>>, None, 2),
                           DefProcess(5)>>)],
     \* from typing import Dict / def process(data: Dict[str, int]) -> int: ...
     imports_Dict |->
        [syntax_ok |-> TRUE, raises |-> None,
         tree |-> Module(<<ImportFrom(Some("typing"), <<alias("Dict", None)>>, 2),
                           DefProcess(4)>>)],
     \* def get_user() -> User: return User()
     user |->
        [syntax_ok |-> TRUE, raises |-> None,
         tree |-> Module(<<DefGetUser(Some(Name("User", Load, 2)), NewUser)>>)],
     \* def get_user() -> User | None: return None
     user_or_none |->
        [syntax_ok |-> TRUE, raises |-> None,
         tree |-> Module(<<DefGetUser(Some(UserOrNone), Constant("None", 3))>>)],
     \* def get_user() -> Optional[User]: return None
     optional_user |->
        [syntax_ok |-> TRUE, raises |-> None,
         tree |-> Module(<<DefGetUser(Some(OptionalUser), Constant("None", 3))>>)],
     \* def get_user() -> Admin: return Admin()
     admin |->
        [syntax_ok |-> TRUE, raises |-> None,
         tree |-> Module(<<DefGetUser(Some(Name("Admin", Load, 2)),
                                      Call(Name("Admin", Load, 3), <<>>, 3))>>)],
     \* def get_user(): return User()
     user_unannotated |->
        [syntax_ok |-> TRUE, raises |-> None, tree |-> Module(<<DefGetUser(None, NewUser)>>)],
     \* def get_user() -> User | None: return None
     \* def caller(): bar(); foo()
     \* def process(data: Dict[str, int]) -> int: ...
     mixed |->
        [syntax_ok |-> TRUE, raises |-> None,
         tree |-> Module(<<DefGetUser(Some(UserOrNone), Constant("None", 3)),
                           FunctionDef("caller", <<>>,
                               <<Expr(Call(Name("bar", Load, 6), <<>>, 6), 6),
                                 Expr(Call(Name("foo", Load, 7), <<>>, 7), 7)>>,
                               None, 5),
                           DefProcess(9)>>)],
     \* the empty text
     empty |-> [syntax_ok |-> TRUE, raises |-> None, tree |-> Module(<<>>)],
     \* def broken(
     broken |-> [syntax_ok |-> FALSE, raises |-> None, tree |-> Module(<<>>)],
     \* x = '<a lone surrogate>': ast.parse raises UnicodeEncodeError
     lone_surrogate |->
        [syntax_ok |-> TRUE, raises |-> Some("UnicodeEncodeError"), tree |-> Module(<<>>)],
     \* x = 1 + 1 + ... + 1, nine hundred terms: the tree is built and the
     \* walk of it raises RecursionError
     deep_expression |->
        [syntax_ok |-> TRUE, raises |-> Some("RecursionError"), tree |-> Module(<<>>)]]

(***************************************************************************)
(* PythonSymbolExtractor: the walk threads st = [symbol_table,             *)
(* current_scope] through the nodes                                        *)
(***************************************************************************)

PythonSymbolExtractor == [symbol_table |-> SymbolTable, current_scope |-> "module"]

RECURSIVE visit(_, _)
RECURSIVE visit_all(_, _)
RECURSIVE visit_import_names(_, _, _)
RECURSIVE visit_importfrom_names(_, _, _, _)
RECURSIVE visit_assign_targets(_, _, _)

\* NodeVisitor.generic_visit: visit every child node in field order.
generic_visit(st, node) == visit_all(st, Children(node))

visit_all(st, nodes) ==
    IF Len(nodes) = 0 THEN st
    ELSE visit_all(visit(st, Head(nodes)), Tail(nodes))

\* The loop over node.names of visit_Import.
visit_import_names(st, names, lineno) ==
    IF Len(names) = 0 THEN st
    ELSE LET a    == Head(names)
             name == IF ~IsNone(a.asname) /\ Value(a.asname) # "" THEN Value(a.asname) ELSE a.name
             t1   == add_import(st.symbol_table, name, a.name)
             t2   == add_definition(t1, name, "import", lineno, st.current_scope)
         IN  visit_import_names([st EXCEPT !.symbol_table = t2], Tail(names), lineno)

visit_Import(st, node) ==
    generic_visit(visit_import_names(st, node.names, node.lineno), node)

\* The loop over node.names of visit_ImportFrom.
visit_importfrom_names(st, module, names, lineno) ==
    IF Len(names) = 0 THEN st
    ELSE LET a    == Head(names)
             name == IF ~IsNone(a.asname) /\ Value(a.asname) # "" THEN Value(a.asname) ELSE a.name
             t1   == add_import(st.symbol_table, name, module \o "." \o a.name)
             t2   == add_definition(t1, name, "import", lineno, st.current_scope)
         IN  visit_importfrom_names([st EXCEPT !.symbol_table = t2], module, Tail(names), lineno)

visit_ImportFrom(st, node) ==
    LET module == IF IsNone(node.module) THEN "" ELSE Value(node.module)
    IN  generic_visit(visit_importfrom_names(st, module, node.names, node.lineno), node)

\* A function without a return annotation recorded as returning Any.
ReturnType_any(node) ==
    IF ~IsNone(node.returns) THEN Some(unparse(Value(node.returns))) ELSE Some("Any")

\* The return annotation recorded for a function: unparsed text, or None.
ReturnType(node) ==
    IF ~IsNone(node.returns) THEN Some(unparse(Value(node.returns))) ELSE None

\* The scope a function's or class's body is walked in.
BodyScope(prefix, name) == prefix \o ":" \o name

\* The scope of the body left in force.
RestoredScope_kept(old_scope, body_scope) == body_scope

\* The scope in force after the body of a definition entered from old_scope.
RestoredScope(old_scope, body_scope) == old_scope

visit_FunctionDef(st, node) ==
    LET return_type == ReturnType(node)
        t1 == add_definition(st.symbol_table, node.name, "function", node.lineno,
                             st.current_scope)
        t2 == add_function_signature(t1, node.name, return_type)
        old_scope == st.current_scope
        inner == [symbol_table |-> t2, current_scope |-> BodyScope("function", node.name)]
        after == generic_visit(inner, node)
    IN  [after EXCEPT !.current_scope = RestoredScope(old_scope, after.current_scope)]

visit_AsyncFunctionDef(st, node) ==
    LET return_type == ReturnType(node)
        t1 == add_definition(st.symbol_table, node.name, "async_function", node.lineno,
                             st.current_scope)
        t2 == add_function_signature(t1, node.name, return_type)
        old_scope == st.current_scope
        inner == [symbol_table |-> t2, current_scope |-> BodyScope("function", node.name)]
        after == generic_visit(inner, node)
    IN  [after EXCEPT !.current_scope = RestoredScope(old_scope, after.current_scope)]

visit_ClassDef(st, node) ==
    LET t1 == add_definition(st.symbol_table, node.name, "class", node.lineno,
                             st.current_scope)
        old_scope == st.current_scope
        inner == [symbol_table |-> t1, current_scope |-> BodyScope("class", node.name)]
        after == generic_visit(inner, node)
    IN  [after EXCEPT !.current_scope = RestoredScope(old_scope, after.current_scope)]

\* The loop over node.targets of visit_Assign.
visit_assign_targets(st, targets, lineno) ==
    IF Len(targets) = 0 THEN st
    ELSE LET t  == Head(targets)
             s1 == IF t.type = "Name"
                   THEN [st EXCEPT !.symbol_table =
                            add_definition(@, t.id, "variable", lineno, st.current_scope)]
                   ELSE st
         IN  visit_assign_targets(s1, Tail(targets), lineno)

visit_Assign(st, node) ==
    generic_visit(visit_assign_targets(st, node.targets, node.lineno), node)

visit_AnnAssign(st, node) ==
    LET s1 == IF node.target.type = "Name"
              THEN [st EXCEPT !.symbol_table =
                       add_definition(@, node.target.id, "variable", node.lineno,
                                      st.current_scope)]
              ELSE st
    IN  generic_visit(s1, node)

\* visit_Name testing the context for Store instead of Load.
visit_Name_store(st, node) ==
    LET s1 == IF node.ctx = Store
              THEN [st EXCEPT !.symbol_table = add_usage(@, node.id, node.lineno)]
              ELSE st
    IN  generic_visit(s1, node)

visit_Name(st, node) ==
    LET s1 == IF node.ctx = Load
              THEN [st EXCEPT !.symbol_table = add_usage(@, node.id, node.lineno)]
              ELSE st
    IN  generic_visit(s1, node)

visit_Call(st, node) ==
    LET s1 == IF node.func.type = "Name"
              THEN [st EXCEPT !.symbol_table =
                       add_function_call(@, node.func.id, node.lineno)]
              ELSE IF node.func.type = "Attribute"
              THEN [st EXCEPT !.symbol_table =
                       add_function_call(@, node.func.attr, node.lineno)]
              ELSE st
    IN  generic_visit(s1, node)

\* NodeVisitor.visit: dispatch on the node class, generic_visit by default.
visit(st, node) ==
    CASE node.type = "Import" -> visit_Import(st, node)
      [] node.type = "ImportFrom" -> visit_ImportFrom(st, node)
      [] node.type = "FunctionDef" -> visit_FunctionDef(st, node)
      [] node.type = "AsyncFunctionDef" -> visit_AsyncFunctionDef(st, node)
      [] node.type = "ClassDef" -> visit_ClassDef(st, node)
      [] node.type = "Assign" -> visit_Assign(st, node)
      [] node.type = "AnnAssign" -> visit_AnnAssign(st, node)
      [] node.type = "Name" -> visit_Name(st, node)
      [] node.type = "Call" -> visit_Call(st, node)
      [] OTHER -> generic_visit(st, node)

\* ast.parse(content): the tree, or None when the text raises SyntaxError.
parse_text(text) ==
    IF text.syntax_ok THEN Some(text.tree) ELSE None

parse(content) == parse_text(SourceTexts[content])

\* The base class of the exception classes met.
ExceptionBase ==
    [SyntaxError |-> "Exception", ValueError |-> "Exception",
     OSError |-> "Exception", TimeoutError |-> "OSError",
     TypeError |-> "Exception", JSONDecodeError |-> "ValueError",
     UnicodeError |-> "ValueError", UnicodeEncodeError |-> "UnicodeError",
     RecursionError |-> "RuntimeError", RuntimeError |-> "Exception",
     Exception |-> "BaseException", BaseException |-> ""]

RECURSIVE IsSubclass(_, _)
IsSubclass(exc, cls) ==
    \/ exc = cls
    \/ ExceptionBase[exc] # "" /\ IsSubclass(ExceptionBase[exc], cls)

\* The body of the try statement: the table it returns or the exception it
\* raises.
TryBodyOf(tree, raises) ==
    IF IsNone(tree) THEN [value |-> None, raised |-> Some("SyntaxError")]
    ELSE IF ~IsNone(raises) THEN [value |-> None, raised |-> raises]
    ELSE [value |-> Some(visit(PythonSymbolExtractor, Value(tree)).symbol_table),
          raised |-> None]

TryBody(content) == TryBodyOf(parse(content), SourceTexts[content].raises)

\* Only the SyntaxError clause.
Handlers_syntax_only == <<"SyntaxError">>

\* The except clauses of build_symbol_table; each returns None.
Handlers == <<"SyntaxError", "Exception">>

\* An exception of the body that an except clause names is caught.
ExceptClauses(body) ==
    IF IsNone(body.raised) THEN body
    ELSE IF \E i \in 1..Len(Handlers) : IsSubclass(Value(body.raised), Handlers[i])
    THEN [value |-> None, raised |-> None]
    ELSE body

\* What a call of build_symbol_table does: the value it returns (Some(table)
\* or None) or the exception that leaves it.
build_symbol_table_outcome(file_path, content) ==
    IF StrLower(PathSuffix(file_path)) # ".py" THEN [value |-> None, raised |-> None]
    ELSE ExceptClauses(TryBody(content))

\* build_symbol_table: Some(table), or None for an unsupported extension or a
\* text that does not parse.
build_symbol_table(file_path, content) ==
    build_symbol_table_outcome(file_path, content).value

\* The paths of the file under analysis.
FilePaths == {"test.py"}

\* build_symbol_table is a function of its two arguments alone: the table of
\* every (path, text), as each call of a detector builds it.
SymbolTables ==
    [file_path \in FilePaths, content \in DOMAIN SourceTexts |->
        build_symbol_table(file_path, content)]

(***************************************************************************)
(* Detector input                                                          *)
(*   task_analyses  dict task_id -> [file_path, changes]   (FileAnalysis)  *)
(*   file_contents  dict task_id -> <<before, after>>                      *)
(* A change (SemanticChange) is [change_type, target, location,            *)
(* content_before, content_after], the snippets Optional strings.          *)
(***************************************************************************)

\* Python truthiness of an Optional[str]: neither None nor "".
Truthy(o) == ~IsNone(o) /\ Value(o) # ""

\* The (task_id, change) pairs in the order the nested loops
\* `for task_id, analysis in task_analyses.items(): for change in analysis.changes`
\* meet them.
RECURSIVE ChangeItems(_)
ChangeItems(task_analyses) ==
    IF Len(task_analyses) = 0 THEN <<>>
    ELSE LET item == Head(task_analyses)
             chs  == item.value.changes
         IN  [i \in 1..Len(chs) |-> [task_id |-> item.key, change |-> chs[i]]]
             \o ChangeItems(Tail(task_analyses))

\* file_path = next(iter(task_analyses.values())).file_path
FirstFilePath(task_analyses) == Head(task_analyses).value.file_path

(***************************************************************************)
(* detect_function_rename_conflicts                                        *)
(***************************************************************************)

\* Whether a structural change enters the renames dict.
IsRecordedRename(change) ==
    /\ change.change_type = "RENAME_FUNCTION"
    /\ Truthy(change.content_before)
    /\ Truthy(change.content_after)

\* The name the detector looks up among the calls of the other tasks.
RenameOldName(change) == change.target

\* The dict `renames`: old_name -> (new_name, task_id).
RECURSIVE CollectRenames(_, _)
CollectRenames(items, renames) ==
    IF Len(items) = 0 THEN renames
    ELSE LET it == Head(items)
             r1 == IF IsRecordedRename(it.change)
                   THEN DictSet(renames, RenameOldName(it.change),
                                [new_name |-> it.change.target, task_id |-> it.task_id])
                   ELSE renames
         IN  CollectRenames(Tail(items), r1)

\* The same-task test left out.
SameTaskSkipped_never(source_task_id, task_id) == FALSE

\* Whether the pair (recording task, checked task) is compared at all.
SameTaskSkipped(source_task_id, task_id) == source_task_id = task_id

RenameSeverity == "HIGH"

RenameConflict(file_path, old_name, new_name, rename_task_id, task_id, call_lines) ==
    [conflict_type |-> "function_rename",
     file_path |-> file_path,
     location |-> "function:" \o old_name,
     tasks_involved |-> <<rename_task_id, task_id>>,
     description |-> "Task " \o rename_task_id \o " renamed function '" \o old_name
                     \o "' to '" \o new_name \o "', but task " \o task_id
                     \o " still calls '" \o old_name \o "' at line(s) "
                     \o ListRepr(call_lines),
     line_number |-> IF Len(call_lines) > 0 THEN call_lines[1] ELSE 0,
     severity |-> RenameSeverity,
     suggestion |-> Some("Update function calls from '" \o old_name \o "' to '"
                         \o new_name \o "' in task " \o task_id),
     metadata |-> [old_name |-> old_name, new_name |-> new_name, call_lines |-> call_lines]]

\* The inner loop `for old_name, (new_name, rename_task_id) in renames.items()`.
RECURSIVE RenameConflictsOfTask(_, _, _, _)
RenameConflictsOfTask(file_path, task_id, symbol_table, renames) ==
    IF Len(renames) = 0 THEN <<>>
    ELSE LET r        == Head(renames)
             old_name == r.key
             found    ==
                IF SameTaskSkipped(r.value.task_id, task_id) THEN <<>>
                ELSE IF DictHas(symbol_table.function_calls, old_name)
                THEN <<RenameConflict(file_path, old_name, r.value.new_name,
                                      r.value.task_id, task_id,
                                      DictGet(symbol_table.function_calls, old_name))>>
                ELSE <<>>
         IN  found \o RenameConflictsOfTask(file_path, task_id, symbol_table, Tail(renames))

\* The outer loop `for task_id, (before_content, after_content) in file_contents.items()`.
RECURSIVE RenameConflictsOfContents(_, _, _)
\* The loop left at the first text that yields no table.
RenameConflictsOfContents_break(file_path, contents, renames) ==
    IF Len(contents) = 0 THEN <<>>
    ELSE LET c            == Head(contents)
             symbol_table == SymbolTables[file_path, c.value[2]]
             found        == IF IsNone(symbol_table) THEN <<>>
                             ELSE RenameConflictsOfTask(file_path, c.key,
                                                        Value(symbol_table), renames)
         IN  IF IsNone(symbol_table) THEN <<>>
             ELSE found \o RenameConflictsOfContents(file_path, Tail(contents), renames)

RenameConflictsOfContents(file_path, contents, renames) ==
    IF Len(contents) = 0 THEN <<>>
    ELSE LET c            == Head(contents)
             symbol_table == SymbolTables[file_path, c.value[2]]
             found        == IF IsNone(symbol_table) THEN <<>>
                             ELSE RenameConflictsOfTask(file_path, c.key,
                                                        Value(symbol_table), renames)
         IN  found \o RenameConflictsOfContents(file_path, Tail(contents), renames)

detect_function_rename_conflicts(task_analyses, file_contents) ==
    IF Len(task_analyses) = 0 THEN <<>>
    ELSE RenameConflictsOfContents(FirstFilePath(task_analyses), file_contents,
                                   CollectRenames(ChangeItems(task_analyses), EmptyDict))

(***************************************************************************)
(* detect_import_removal_conflicts                                         *)
(***************************************************************************)

\* The dict `removals`: symbol -> task_id.
RECURSIVE CollectRemovals(_, _)
\* A list of the removals, one entry for every record.
CollectRemovals_list(items, removals) ==
    IF Len(items) = 0 THEN removals
    ELSE LET it == Head(items)
             r1 == IF it.change.change_type = "REMOVE_IMPORT"
                   THEN Append(removals, [key |-> it.change.target, value |-> it.task_id])
                   ELSE removals
         IN  CollectRemovals(Tail(items), r1)

CollectRemovals(items, removals) ==
    IF Len(items) = 0 THEN removals
    ELSE LET it == Head(items)
             r1 == IF it.change.change_type = "REMOVE_IMPORT"
                   THEN DictSet(removals, it.change.target, it.task_id)
                   ELSE removals
         IN  CollectRemovals(Tail(items), r1)

\* The test of the task's own imports left out.
UsesWithoutImport_any_use(symbol_table, symbol) == DictHas(symbol_table.usages, symbol)

\* The task relies on the removed import: it reads the symbol and does not
\* import it itself.
UsesWithoutImport(symbol_table, symbol) ==
    DictHas(symbol_table.usages, symbol) /\ ~DictHas(symbol_table.imports, symbol)

ImportSeverity == "CRITICAL"

\* The consuming task listed before the removing task.
ImportConflict_consumer_first(file_path, symbol, removal_task_id, task_id, usage_lines) ==
    [conflict_type |-> "import_removal",
     file_path |-> file_path,
     location |-> "import:" \o symbol,
     tasks_involved |-> <<task_id, removal_task_id>>,
     description |-> "Task " \o removal_task_id \o " removed import of '" \o symbol
                     \o "', but task " \o task_id \o " uses it at line(s) "
                     \o ListRepr(usage_lines) \o " without importing it",
     line_number |-> IF Len(usage_lines) > 0 THEN usage_lines[1] ELSE 0,
     severity |-> ImportSeverity,
     suggestion |-> Some("Task " \o task_id \o " should import '" \o symbol
                         \o "' explicitly"),
     metadata |-> [symbol |-> symbol, usage_lines |-> usage_lines]]

ImportConflict(file_path, symbol, removal_task_id, task_id, usage_lines) ==
    [conflict_type |-> "import_removal",
     file_path |-> file_path,
     location |-> "import:" \o symbol,
     tasks_involved |-> <<removal_task_id, task_id>>,
     description |-> "Task " \o removal_task_id \o " removed import of '" \o symbol
                     \o "', but task " \o task_id \o " uses it at line(s) "
                     \o ListRepr(usage_lines) \o " without importing it",
     line_number |-> IF Len(usage_lines) > 0 THEN usage_lines[1] ELSE 0,
     severity |-> ImportSeverity,
     suggestion |-> Some("Task " \o task_id \o " should import '" \o symbol
                         \o "' explicitly"),
     metadata |-> [symbol |-> symbol, usage_lines |-> usage_lines]]

\* The inner loop `for symbol, removal_task_id in removals.items()`.
RECURSIVE ImportConflictsOfTask(_, _, _, _)
ImportConflictsOfTask(file_path, task_id, symbol_table, removals) ==
    IF Len(removals) = 0 THEN <<>>
    ELSE LET r      == Head(removals)
             symbol == r.key
             found  ==
                IF SameTaskSkipped(r.value, task_id) THEN <<>>
                ELSE IF UsesWithoutImport(symbol_table, symbol)
                THEN <<ImportConflict(file_path, symbol, r.value, task_id,
                                      DictGet(symbol_table.usages, symbol))>>
                ELSE <<>>
         IN  found \o ImportConflictsOfTask(file_path, task_id, symbol_table, Tail(removals))

RECURSIVE ImportConflictsOfContents(_, _, _)
ImportConflictsOfContents(file_path, contents, removals) ==
    IF Len(contents) = 0 THEN <<>>
    ELSE LET c            == Head(contents)
             symbol_table == SymbolTables[file_path, c.value[2]]
             found        == IF IsNone(symbol_table) THEN <<>>
                             ELSE ImportConflictsOfTask(file_path, c.key,
                                                        Value(symbol_table), removals)
         IN  found \o ImportConflictsOfContents(file_path, Tail(contents), removals)

\* Only the tasks that recorded an analysis checked as consumers.
detect_import_removal_conflicts_known_tasks(task_analyses, file_contents) ==
    IF Len(task_analyses) = 0 THEN <<>>
    ELSE ImportConflictsOfContents(
             FirstFilePath(task_analyses),
             SelectSeq(file_contents, LAMBDA e : DictHas(task_analyses, e.key)),
             CollectRemovals(ChangeItems(task_analyses), EmptyDict))

detect_import_removal_conflicts(task_analyses, file_contents) ==
    IF Len(task_analyses) = 0 THEN <<>>
    ELSE ImportConflictsOfContents(FirstFilePath(task_analyses), file_contents,
                                   CollectRemovals(ChangeItems(task_analyses), EmptyDict))

(***************************************************************************)
(* detect_variable_rename_conflicts                                        *)
(***************************************************************************)

\* A detector that reports a variable_rename conflict between the first
\* recording task and every other task that has texts.
detect_variable_rename_conflicts_reports(task_analyses, file_contents) ==
    IF Len(task_analyses) = 0 THEN <<>>
    ELSE LET source  == Head(task_analyses).key
             checked == SelectSeq(file_contents, LAMBDA e : e.key # source)
         IN  [i \in 1..Len(checked) |->
                [conflict_type |-> "variable_rename",
                 file_path |-> FirstFilePath(task_analyses),
                 location |-> "variable:x",
                 tasks_involved |-> <<source, checked[i].key>>,
                 description |-> "Task " \o source \o " renamed variable 'x'",
                 line_number |-> 0,
                 severity |-> "MEDIUM",
                 suggestion |-> None,
                 metadata |-> <<>>]]

detect_variable_rename_conflicts(task_analyses, file_contents) == <<>>

(***************************************************************************)
(* detect_type_change_conflicts                                            *)
(***************************************************************************)

\* The loop `for func_name in after_symbols.function_signatures` of one task.
RECURSIVE TypeChangesOfTask(_, _, _, _, _)
TypeChangesOfTask(func_names, before_symbols, after_symbols, task_id, type_changes) ==
    IF Len(func_names) = 0 THEN type_changes
    ELSE LET func_name == Head(func_names)
             t1 ==
                IF DictHas(before_symbols.function_signatures, func_name)
                THEN LET old_type == DictGet(before_symbols.function_signatures, func_name)
                         new_type == DictGet(after_symbols.function_signatures, func_name)
                     IN  IF old_type # new_type
                         THEN DictSet(type_changes, func_name,
                                      [old_type |-> old_type, new_type |-> new_type,
                                       task_id |-> task_id])
                         ELSE type_changes
                ELSE type_changes
         IN  TypeChangesOfTask(Tail(func_names), before_symbols, after_symbols, task_id, t1)

\* The dict `type_changes`: func -> (old_type, new_type, task_id), filled by
\* the loop over file_contents.items().
RECURSIVE CollectTypeChanges(_, _, _)
CollectTypeChanges(file_path, contents, type_changes) ==
    IF Len(contents) = 0 THEN type_changes
    ELSE LET c              == Head(contents)
             before_symbols == SymbolTables[file_path, c.value[1]]
             after_symbols  == SymbolTables[file_path, c.value[2]]
             t1 == IF IsNone(before_symbols) \/ IsNone(after_symbols) THEN type_changes
                   ELSE TypeChangesOfTask(
                            DictKeys(Value(after_symbols).function_signatures),
                            Value(before_symbols), Value(after_symbols), c.key,
                            type_changes)
         IN  CollectTypeChanges(file_path, Tail(contents), t1)

\* The marker in lower case, which no annotation of None contains.
NullMarker_lower == "none"

\* The nullability marker looked for in the annotation text.
NullMarker == "None"

\* The test of the new annotation left out.
AddedNone_old_only(old_type, new_type) == ~StrContains(old_type, NullMarker)

\* `"None" in new_type and "None" not in old_type`
AddedNone(old_type, new_type) ==
    StrContains(new_type, NullMarker) /\ ~StrContains(old_type, NullMarker)

TypeChangeSeverity == "MEDIUM"

TypeChangeConflict(file_path, func_name, old_type, new_type, change_task_id) ==
    [conflict_type |-> "type_change",
     file_path |-> file_path,
     location |-> "function:" \o func_name,
     tasks_involved |-> <<change_task_id>>,
     description |-> "Task " \o change_task_id \o " changed return type of '"
                     \o func_name \o "' from '" \o old_type \o "' to '" \o new_type
                     \o "' (added None). This may break callers that don't handle None.",
     line_number |-> 0,
     severity |-> TypeChangeSeverity,
     suggestion |-> Some("Review all callers of '" \o func_name
                         \o "' to ensure they handle None"),
     metadata |-> [function |-> func_name, old_type |-> old_type, new_type |-> new_type]]

\* The loop `for func_name, (old_type, new_type, change_task_id) in type_changes.items()`.
RECURSIVE TypeChangeConflicts(_, _)
TypeChangeConflicts(file_path, type_changes) ==
    IF Len(type_changes) = 0 THEN <<>>
    ELSE LET tc    == Head(type_changes)
             found ==
                IF Truthy(tc.value.old_type) /\ Truthy(tc.value.new_type)
                THEN IF AddedNone(Value(tc.value.old_type), Value(tc.value.new_type))
                     THEN <<TypeChangeConflict(file_path, tc.key, Value(tc.value.old_type),
                                               Value(tc.value.new_type), tc.value.task_id)>>
                     ELSE <<>>
                ELSE <<>>
         IN  found \o TypeChangeConflicts(file_path, Tail(type_changes))

detect_type_change_conflicts(task_analyses, file_contents) ==
    IF Len(task_analyses) = 0 THEN <<>>
    ELSE LET file_path == FirstFilePath(task_analyses)
         IN  TypeChangeConflicts(file_path,
                                 CollectTypeChanges(file_path, file_contents, EmptyDict))

(***************************************************************************)
(* The calls of build_symbol_table a detector makes, as (file_path,        *)
(* content) in call order                                                  *)
(***************************************************************************)

\* One call per entry of file_contents, on the after-text.
AfterBuilds(file_path, contents) ==
    [i \in 1..Len(contents) |-> <<file_path, contents[i].value[2]>>]

\* Two calls per entry of file_contents: the before-text, then the after-text.
BothBuilds(file_path, contents) ==
    [i \in 1..(2 * Len(contents)) |->
        <<file_path, contents[(i + 1) \div 2].value[IF i % 2 = 1 THEN 1 ELSE 2]>>]

function_rename_builds(task_analyses, file_contents) ==
    IF Len(task_analyses) = 0 THEN <<>>
    ELSE AfterBuilds(FirstFilePath(task_analyses), file_contents)

import_removal_builds(task_analyses, file_contents) ==
    IF Len(task_analyses) = 0 THEN <<>>
    ELSE AfterBuilds(FirstFilePath(task_analyses), file_contents)

variable_rename_builds(task_analyses, file_contents) == <<>>

\* The early return on empty task_analyses left out.
type_change_builds_unguarded(task_analyses, file_contents) ==
    BothBuilds("test.py", file_contents)

type_change_builds(task_analyses, file_contents) ==
    IF Len(task_analyses) = 0 THEN <<>>
    ELSE BothBuilds(FirstFilePath(task_analyses), file_contents)

semantic_builds(task_analyses, file_contents) ==
    IF Len(task_analyses) = 0 THEN <<>>
    ELSE function_rename_builds(task_analyses, file_contents)
         \o import_removal_builds(task_analyses, file_contents)
         \o variable_rename_builds(task_analyses, file_contents)
         \o type_change_builds(task_analyses, file_contents)

(***************************************************************************)
(* detect_semantic_conflicts                                               *)
(***************************************************************************)

\* change_type_map.get(conflict_type, ChangeType.UNKNOWN)
change_type_map(conflict_type) ==
    CASE conflict_type = "function_rename" -> "RENAME_FUNCTION"
      [] conflict_type = "import_removal" -> "REMOVE_IMPORT"
      [] conflict_type = "variable_rename" -> "MODIFY_VARIABLE"
      [] conflict_type = "type_change" -> "MODIFY_FUNCTION"
      [] OTHER -> "UNKNOWN"

\* The suggestion never appended.
full_reason_no_suggestion(conflict) ==
    "[Semantic: " \o conflict.conflict_type \o "] " \o conflict.description

\* reason_prefix + description, and the suggestion when there is one.
full_reason(conflict) ==
    LET reason_prefix == "[Semantic: " \o conflict.conflict_type \o "] "
        base          == reason_prefix \o conflict.description
    IN  IF Truthy(conflict.suggestion)
        THEN base \o " Suggestion: " \o Value(conflict.suggestion)
        ELSE base

\* The change kind listed once, whatever the number of tasks.
change_types_of_once(conflict) == <<change_type_map(conflict.conflict_type)>>

\* [change_type] * len(conflict.tasks_involved)
change_types_of(conflict) ==
    [i \in 1..Len(conflict.tasks_involved) |-> change_type_map(conflict.conflict_type)]

\* The ConflictRegion built from one SemanticConflict.
ConflictRegion(conflict) ==
    [file_path |-> conflict.file_path,
     location |-> conflict.location,
     tasks_involved |-> conflict.tasks_involved,
     change_types |-> change_types_of(conflict),
     severity |-> conflict.severity,
     can_auto_merge |-> FALSE,
     merge_strategy |-> "HUMAN_REQUIRED",
     reason |-> full_reason(conflict)]

\* The type-change pass run first.
all_conflicts_type_first(task_analyses, file_contents) ==
    detect_type_change_conflicts(task_analyses, file_contents)
    \o detect_function_rename_conflicts(task_analyses, file_contents)
    \o detect_import_removal_conflicts(task_analyses, file_contents)
    \o detect_variable_rename_conflicts(task_analyses, file_contents)

\* all_conflicts: the four detectors' findings, extended in call order.
all_conflicts(task_analyses, file_contents) ==
    detect_function_rename_conflicts(task_analyses, file_contents)
    \o detect_import_removal_conflicts(task_analyses, file_contents)
    \o detect_variable_rename_conflicts(task_analyses, file_contents)
    \o detect_type_change_conflicts(task_analyses, file_contents)

detect_semantic_conflicts(task_analyses, file_contents) ==
    IF Len(task_analyses) = 0 THEN <<>>
    ELSE LET found == all_conflicts(task_analyses, file_contents)
         IN  [i \in 1..Len(found) |-> ConflictRegion(found[i])]

(***************************************************************************)
(* integrations/linear/error_handling.py: LinearConnectionCache            *)
(* A cache object is the record of its fields; a method is the cache it    *)
(* leaves, with the value it returns where it returns one.  time is the    *)
(* value time.time() returns during the call.                              *)
(***************************************************************************)

\* LinearErrorInfo: the error type and whether a retry might help.
LinearErrorInfo(error_type, is_transient) ==
    [error_type |-> error_type, is_transient |-> is_transient]

\* __init__
LinearConnectionCache(failure_threshold, cache_duration) ==
    [failure_threshold |-> failure_threshold,
     cache_duration |-> cache_duration,
     consecutive_failures |-> 0,
     availability |-> "AVAILABLE",
     cached_at |-> None,
     last_error |-> None]

\* A success that leaves the time stamp and the last error in place.
record_success_keeps_error(cache) ==
    [cache EXCEPT !.consecutive_failures = 0, !.availability = "AVAILABLE"]

record_success(cache) ==
    [cache EXCEPT !.consecutive_failures = 0,
                  !.availability = "AVAILABLE",
                  !.cached_at = None,
                  !.last_error = None]

\* Every error handled as a transient one.
NonTransient_never(error_info) == FALSE

\* `if not error_info.is_transient`
NonTransient(error_info) == ~error_info.is_transient

\* The threshold has to be exceeded.
ThresholdReached_above(consecutive_failures, failure_threshold) ==
    consecutive_failures > failure_threshold

\* `elif self._consecutive_failures >= self.failure_threshold`
ThresholdReached(consecutive_failures, failure_threshold) ==
    consecutive_failures >= failure_threshold

record_failure(cache, error_info, time) ==
    LET failures == cache.consecutive_failures + 1
        counted  == [cache EXCEPT !.consecutive_failures = failures,
                                  !.last_error = Some(error_info)]
    IN  IF NonTransient(error_info)
        THEN [counted EXCEPT !.availability = "UNAVAILABLE", !.cached_at = Some(time)]
        ELSE IF ThresholdReached(failures, cache.failure_threshold)
        THEN [counted EXCEPT !.availability = "UNAVAILABLE", !.cached_at = Some(time)]
        ELSE IF failures >= 1
        THEN [counted EXCEPT !.availability = "DEGRADED"]
        ELSE counted

\* The cached status expires as soon as the duration is reached.
Expired_at_duration(elapsed, cache_duration) == elapsed >= cache_duration

\* `if elapsed > self.cache_duration`
Expired(elapsed, cache_duration) == elapsed > cache_duration

\* The mark expired and the cache put back to AVAILABLE, its count and its
\* last error kept.
AfterExpiry_available(cache) == [cache EXCEPT !.availability = "AVAILABLE"]

\* The mark expired: `self._availability = LinearAvailability.DEGRADED` and
\* `self._consecutive_failures = 1`.
AfterExpiry(cache) ==
    [cache EXCEPT !.availability = "DEGRADED", !.consecutive_failures = 1]

\* is_available: [cache, returned].
is_available(cache, time) ==
    LET checked ==
            IF cache.availability = "UNAVAILABLE" /\ ~IsNone(cache.cached_at)
            THEN LET elapsed == time - Value(cache.cached_at)
                 IN  IF Expired(elapsed, cache.cache_duration)
                     THEN AfterExpiry(cache)
                     ELSE cache
            ELSE cache
    IN  [cache |-> checked,
         returned |-> checked.availability \in {"AVAILABLE", "DEGRADED"}]

get_status(cache) == cache.availability

get_last_error(cache) == cache.last_error

(***************************************************************************)
(* integrations/linear/error_handling.py: classify_error                   *)
(* An exception is [cls, message]: its class and what str() gives.         *)
(***************************************************************************)

NetworkKeywords == <<"network", "connection", "dns", "unreachable">>
AuthKeywords == <<"auth", "unauthorized", "forbidden">>

\* any(keyword in error_str for keyword in keywords)
AnyKeyword(error_str, keywords) ==
    \E i \in 1..Len(keywords) : StrContains(error_str, keywords[i])

\* isinstance(error, asyncio.TimeoutError)
IsTimeoutError(error) == error.cls = "TimeoutError"

\* The tests in the order of the code, on the lowered message.
classify_str(error_str, is_timeout) ==
    IF AnyKeyword(error_str, NetworkKeywords)
    THEN LinearErrorInfo("NETWORK_ERROR", TRUE)
    ELSE IF StrContains(error_str, "timeout") \/ is_timeout
    THEN LinearErrorInfo("TIMEOUT", TRUE)
    ELSE IF StrContains(error_str, "rate limit") \/ StrContains(error_str, "429")
    THEN LinearErrorInfo("RATE_LIMIT", TRUE)
    ELSE IF \/ StrContains(error_str, "500")
            \/ StrContains(error_str, "502")
            \/ StrContains(error_str, "503")
    THEN LinearErrorInfo("SERVER_ERROR", TRUE)
    ELSE IF AnyKeyword(error_str, AuthKeywords)
    THEN LinearErrorInfo("AUTH_ERROR", FALSE)
    ELSE IF StrContains(error_str, "validation") \/ StrContains(error_str, "invalid")
    THEN LinearErrorInfo("VALIDATION_ERROR", FALSE)
    ELSE LinearErrorInfo("UNKNOWN", TRUE)

classify_error(error) ==
    classify_str(StrLower(error.message), IsTimeoutError(error))

(***************************************************************************)
(* integrations/linear/error_handling.py: retry_with_backoff and           *)
(* linear_operation_with_fallback                                          *)
(* A call is a frame: the position of the coroutine (running the operation *)
(* function under wait_for, sleeping before a retry, returned), its local  *)
(* variables, and a record of what it has done: the outcome of every       *)
(* invocation of the operation function, the sleeps, and the updates of    *)
(* the connection cache.  Delays are whole numbers of time units.          *)
(***************************************************************************)

RetryConfig(max_retries) ==
    [max_retries |-> max_retries, initial_delay |-> 1, max_delay |-> 3,
     exponential_base |-> 2]

Min(a, b) == IF a <= b THEN a ELSE b

\* No call has been made.
IdleFrame ==
    [pc |-> "idle", entry |-> "none", config |-> RetryConfig(0),
     fallback_result |-> None, attempt |-> 0, delay |-> 0, last_error_info |-> None,
     invocations |-> 0, outcomes |-> <<>>, waits |-> <<>>, records |-> <<>>,
     checked |-> None, retry_result |-> None, returned |-> None,
     propagated |-> None]

\* The frame at the top of the loop body: func(*args, **kwargs) is invoked
\* under asyncio.wait_for.
invoke(frame) ==
    [frame EXCEPT !.pc = "running", !.invocations = @ + 1]

\* `return (success, result)` of retry_with_backoff, and what
\* linear_operation_with_fallback makes of it.
return_from_retry(frame, success, retry_value) ==
    [frame EXCEPT
        !.pc = "returned",
        !.retry_result = Some(<<success, retry_value>>),
        !.returned =
            IF frame.entry = "retry_with_backoff" THEN Some(<<success, retry_value>>)
            ELSE IF success THEN Some(retry_value)
            ELSE Some(frame.fallback_result)]

\* retry_with_backoff up to its first await: the loop runs max_retries + 1
\* times, so with max_retries < 0 it falls through without an attempt.
retry_with_backoff(frame, config) ==
    LET entered == [frame EXCEPT !.config = config,
                                 !.delay = config.initial_delay,
                                 !.attempt = 0,
                                 !.last_error_info = None]
    IN  IF config.max_retries + 1 > 0
        THEN invoke(entered)
        ELSE return_from_retry(entered, FALSE, None)

\* The cache check is skipped.
SkipsOperation_never(available) == FALSE

\* `if not _connection_cache.is_available()`
SkipsOperation(available) == ~available

\* linear_operation_with_fallback up to its first await, on the outcome of
\* is_available().
linear_operation_with_fallback(frame, config, available) ==
    IF SkipsOperation(available)
    THEN [frame EXCEPT !.pc = "returned", !.config = config,
                       !.returned = Some(frame.fallback_result)]
    ELSE retry_with_backoff(frame, config)

\* An error that is retried whatever its class.
NotRetried_never(last_error_info) == FALSE

\* `if not last_error_info.is_transient`
NotRetried(last_error_info) == ~last_error_info.is_transient

\* One attempt too many.
Exhausted_late(attempt, max_retries) == attempt > max_retries

\* `if attempt >= config.max_retries: break`
Exhausted(attempt, max_retries) == attempt >= max_retries

\* Every failed attempt recorded in the cache, the retried ones too.
attempt_failed_each_recorded(frame, last_error_info) ==
    LET failed == [frame EXCEPT !.last_error_info = Some(last_error_info),
                                !.outcomes = Append(@, Some(last_error_info)),
                                !.records = Append(@, "record_failure")]
    IN  IF NotRetried(last_error_info)
        THEN [frame |-> return_from_retry(failed, FALSE, None), recorded |-> TRUE]
        ELSE IF Exhausted(frame.attempt, frame.config.max_retries)
        THEN [frame |-> return_from_retry(failed, FALSE, None), recorded |-> TRUE]
        ELSE [frame |-> [failed EXCEPT !.pc = "sleeping"], recorded |-> TRUE]

\* The except clause, on the classified error: the frame after it, and
\* whether the failure is recorded in the cache.
attempt_failed(frame, last_error_info) ==
    LET failed == [frame EXCEPT !.last_error_info = Some(last_error_info),
                                !.outcomes = Append(@, Some(last_error_info))]
        gave_up == [failed EXCEPT !.records = Append(@, "record_failure")]
    IN  IF NotRetried(last_error_info)
        THEN [frame |-> return_from_retry(gave_up, FALSE, None), recorded |-> TRUE]
        ELSE IF Exhausted(frame.attempt, frame.config.max_retries)
        THEN [frame |-> return_from_retry(gave_up, FALSE, None), recorded |-> TRUE]
        ELSE [frame |-> [failed EXCEPT !.pc = "sleeping"], recorded |-> FALSE]

\* A handler that lets the TimeoutError of wait_for pass.
Catches_no_timeout(cls) == IsSubclass(cls, "Exception") /\ cls # "TimeoutError"

\* `except Exception as e`
Catches(cls) == IsSubclass(cls, "Exception")

\* The attempt raised error: the except clause on its classification, or the
\* exception leaves retry_with_backoff and its caller.
attempt_raised(frame, error, last_error_info) ==
    IF Catches(error.cls)
    THEN attempt_failed(frame, last_error_info)
    ELSE [frame |-> [frame EXCEPT !.pc = "raised", !.propagated = Some(error.cls)],
          recorded |-> FALSE]

\* The operation function returned retry_value within the timeout.
attempt_succeeded(frame, retry_value) ==
    return_from_retry(
        [frame EXCEPT !.outcomes = Append(@, None),
                      !.records = Append(@, "record_success")],
        TRUE, retry_value)

\* asyncio.sleep(delay) is over: the next delay, and the next turn of the
\* loop.
sleep_over(frame) ==
    invoke([frame EXCEPT
                !.waits = Append(@, frame.delay),
                !.delay = Min(frame.delay * frame.config.exponential_base,
                              frame.config.max_delay),
                !.attempt = @ + 1])

(***************************************************************************)
(* integrations/linear/updater.py                                          *)
(* The state file .linear_task.json of one spec directory is None (no      *)
(* file) or Some(LinearTaskState).  A response of the agent is the         *)
(* sequence of its lines.  A call of an updater function is a task: its    *)
(* position (at the await of _run_linear_agent for the create, status or   *)
(* comment prompt, or returned), its local state object, and what it       *)
(* returned; the Linear operation it awaits is its frame.                  *)
(***************************************************************************)

STATUS_TODO == "Todo"
STATUS_IN_PROGRESS == "In Progress"
STATUS_IN_REVIEW == "In Review"

LinearTaskState(task_id, status) == [task_id |-> task_id, status |-> status]

\* `if existing and existing.task_id`, `if not state or not state.task_id`
HasTaskId(state) == ~IsNone(state) /\ Value(state).task_id # ""

\* str.strip(), for the spaces.
RECURSIVE LStrip(_)
LStrip(s) ==
    IF Len(s) > 0 /\ SubSeq(s, 1, 1) = " " THEN LStrip(SubSeq(s, 2, Len(s))) ELSE s

RECURSIVE RStrip(_)
RStrip(s) ==
    IF Len(s) > 0 /\ SubSeq(s, Len(s), Len(s)) = " "
    THEN RStrip(SubSeq(s, 1, Len(s) - 1)) ELSE s

Strip(s) == RStrip(LStrip(s))

\* s.replace(sub, "")
RECURSIVE RemoveAll(_, _)
RemoveAll(s, sub) ==
    IF Len(s) < Len(sub) THEN s
    ELSE IF StartsWith(s, sub) THEN RemoveAll(SubSeq(s, Len(sub) + 1, Len(s)), sub)
    ELSE SubSeq(s, 1, 1) \o RemoveAll(SubSeq(s, 2, Len(s)), sub)

\* The loop over the lines of the response: the task id of the last line
\* that starts with the TASK_ID: marker, "" when no line has one.
RECURSIVE parse_task_id(_)
parse_task_id(response) ==
    IF response = <<>> THEN ""
    ELSE IF StartsWith(Strip(response[Len(response)]), "TASK_ID:")
    THEN Strip(RemoveAll(Strip(response[Len(response)]), "TASK_ID:"))
    ELSE parse_task_id(SubSeq(response, 1, Len(response) - 1))

\* The configuration _run_linear_agent passes.
AgentRetryConfig ==
    [max_retries |-> 3, initial_delay |-> 2, max_delay |-> 30, exponential_base |-> 2]

IdleTask ==
    [pc |-> "idle", fn |-> "none", new_status |-> "", state |-> None,
     agent_calls |-> 0, stored_at_call |-> None, issues_at_call |-> 0,
     returned |-> None]

\* The task returns value.
task_return(task, value) == [task EXCEPT !.pc = "returned", !.returned = Some(value)]

\* create_linear_task after the agent's answer: the task, and the state
\* file.
create_continues(task, response, file) ==
    IF IsNone(response) THEN [task |-> task_return(task, None), file |-> file]
    ELSE IF parse_task_id(Value(response)) = ""
    THEN [task |-> task_return(task, None), file |-> file]
    ELSE LET state == Some(LinearTaskState(parse_task_id(Value(response)), STATUS_TODO))
         IN  [task |-> task_return(task, state), file |-> state]

\* The new status is saved without a look at the agent's answer.
status_continues_unchecked(task, response, file) ==
    [success |-> TRUE,
     file |-> Some([Value(task.state) EXCEPT !.status = task.new_status])]

\* update_linear_status after the agent's answer: the state object loaded
\* before the await is given the new status and saved.
status_continues(task, response, file) ==
    IF IsNone(response) THEN [success |-> FALSE, file |-> file]
    ELSE [success |-> TRUE,
          file |-> Some([Value(task.state) EXCEPT !.status = task.new_status])]

(***************************************************************************)
(* agents/tools_pkg/tools/memory.py: the get_merge_history tool            *)
(* memory/merge_history.json is missing, unreadable, not JSON, or an       *)
(* object with the list "merges".  A value of a key is None when the key   *)
(* is absent, Some(None) when it is null and Some(Some(v)) otherwise.  The *)
(* text of a result is the sequence of its lines.                          *)
(***************************************************************************)

Null == Some(None)

\* dict.get(key, default), on the value of the key.
JsonGet(value, default) == IF IsNone(value) THEN default ELSE Value(value)

\* s[:n]
Slice(s, n) == SubSeq(s, 1, Min(n, Len(s)))

TextResult(lines) == [text |-> Some(lines), raised |-> None]

Raises(cls) == [text |-> None, raised |-> Some(cls)]

\* The backquote of the Markdown text, a character TLA+ strings cannot hold.
Backquote == "'"

\* The line of the commit: the first 12 characters of the recorded hash.
CommitLine(merge_commit) ==
    "**Commit:** " \o Backquote \o Slice(Value(merge_commit), 12) \o Backquote

StatsGet(stats, key) == IF DictHas(stats, key) THEN DictGet(stats, key) ELSE 0

StatsLines(stats) ==
    <<"- Total files merged: " \o ToString(StatsGet(stats, "total_files")),
      "- Conflicts resolved: " \o ToString(StatsGet(stats, "conflicts_resolved")),
      "- AI-assisted merges: " \o ToString(StatsGet(stats, "ai_assisted")),
      "- Auto-merged files: " \o ToString(StatsGet(stats, "auto_merged"))>>

\* The resolved conflicting files, ten of them at most.
ConflictingLines(conflicting_files) ==
    IF conflicting_files = <<>> THEN <<>>
    ELSE <<"", "**Conflicting files resolved:** " \o ToString(Len(conflicting_files))>>
         \o [i \in 1..Min(Len(conflicting_files), 10) |->
                "- " \o Backquote \o conflicting_files[i] \o Backquote]
         \o (IF Len(conflicting_files) > 10
             THEN <<"- ... and " \o ToString(Len(conflicting_files) - 10) \o " more">>
             ELSE <<>>)

\* merges[-6:-1]
PreviousMerges(merges) ==
    SubSeq(merges, IF Len(merges) > 6 THEN Len(merges) - 5 ELSE 1, Len(merges) - 1)

PreviousLines(merges) ==
    IF Len(merges) <= 1 THEN <<>>
    ELSE <<"", "### Previous Merges", "">>
         \o [i \in 1..Len(PreviousMerges(merges)) |->
                "- " \o Slice(PreviousMerges(merges)[i].timestamp, 19) \o ": "
                     \o ToString(Len(PreviousMerges(merges)[i].files_merged))
                     \o " files merged"]

\* None[:12] raises TypeError.
NotSubscriptable(value) == IsNone(value)

\* The report on a history that has merges.
HistoryReport(merges, last_merge) ==
    IF NotSubscriptable(JsonGet(last_merge.merge_commit, Some("unknown")))
    THEN Raises("TypeError")
    ELSE TextResult(
             <<"## Merge History", "",
               "**Total merges:** " \o ToString(Len(merges)), "",
               "### Last Merge", "",
               "**Timestamp:** " \o last_merge.timestamp,
               CommitLine(JsonGet(last_merge.merge_commit, Some("unknown"))), "",
               "**Statistics:**">>
             \o StatsLines(last_merge.stats)
             \o ConflictingLines(last_merge.conflicting_files)
             \o PreviousLines(merges))

\* The body of the try statement.
ReadHistory(file) ==
    IF file.kind = "unreadable" THEN Raises("OSError")
    ELSE IF file.kind = "corrupt" THEN Raises("JSONDecodeError")
    ELSE IF file.merges = <<>> THEN TextResult(<<"No merge history found.">>)
    ELSE HistoryReport(file.merges, file.merges[Len(file.merges)])

\* except (json.JSONDecodeError, OSError) as e
HistoryHandled(outcome) ==
    IF IsNone(outcome.raised) THEN outcome
    ELSE IF IsSubclass(Value(outcome.raised), "JSONDecodeError")
            \/ IsSubclass(Value(outcome.raised), "OSError")
    THEN TextResult(<<"Error reading merge history: " \o Value(outcome.raised)>>)
    ELSE outcome

get_merge_history(file) ==
    IF file.kind = "missing"
    THEN TextResult(<<"No merge history found. This spec has not been merged yet.">>)
    ELSE HistoryHandled(ReadHistory(file))

(***************************************************************************)
(* The calls: the input maps of one file, the result of the last call and  *)
(* the build_symbol_table calls it made                                    *)
(***************************************************************************)

VARIABLES task_analyses, file_contents, called, result, built

detector_vars == <<task_analyses, file_contents, called, result, built>>

\* A direct call of build_symbol_table: its arguments and, once it is made,
\* its outcome.
VARIABLES bst_file_path, bst_content, bst_outcome

table_vars == <<bst_file_path, bst_content, bst_outcome>>

\* A connection cache, the clock, and the calls made on the cache so far:
\* [op, is_transient, returned, at].
VARIABLES connection_cache, now, calls

cache_vars == <<connection_cache, now, calls>>

\* A call of classify_error: its argument and, once it is made, its result.
VARIABLES ce_error, ce_result

classify_vars == <<ce_error, ce_result>>

\* The calls of retry_with_backoff and linear_operation_with_fallback: the
\* frame of each caller, and the number of calls started.
VARIABLES frames, started

operation_vars == <<frames, started>>

\* The spec directory and Linear: whether LINEAR_API_KEY is set, the state
\* file, the number of issues created in Linear for the spec, every state
\* written to the file so far, the task of each caller of an updater
\* function, and the number of calls made.
VARIABLES enabled, state_file, issues, saved, updater_tasks, task_calls

updater_vars == <<enabled, state_file, issues, saved, updater_tasks, task_calls>>

\* A call of the get_merge_history tool: the file it finds and, once it is
\* made, its outcome.
VARIABLES merge_history_file, gmh_outcome

history_vars == <<merge_history_file, gmh_outcome>>

\* A walk of the symbol extractor over a tree: the tree and, once the walk is
\* made, the extractor after it.
VARIABLES walk_tree, walk_state

scope_vars == <<walk_tree, walk_state>>

vars == <<detector_vars, table_vars, cache_vars, classify_vars, operation_vars, updater_vars, history_vars, scope_vars>>

\* No detector is called.
DetectorIdle ==
    /\ task_analyses = <<>>
    /\ file_contents = <<>>
    /\ called = "none"
    /\ result = <<>>
    /\ built = <<>>

\* No direct call of build_symbol_table is made.
TableIdle ==
    /\ bst_file_path = "test.py"
    /\ bst_content = "empty"
    /\ bst_outcome = None

\* The connection cache is as the module creates it and is not used.
CacheIdle ==
    /\ connection_cache = LinearConnectionCache(3, 300)
    /\ now = 0
    /\ calls = <<>>

\* classify_error is not called.
ClassifyIdle ==
    /\ ce_error = [cls |-> "Exception", message |-> ""]
    /\ ce_result = None

\* No Linear operation is called.
OperationIdle ==
    /\ frames = <<>>
    /\ started = 0

\* No updater function is called.
UpdaterIdle ==
    /\ enabled = FALSE
    /\ state_file = None
    /\ issues = 0
    /\ saved = <<>>
    /\ updater_tasks = <<>>
    /\ task_calls = 0

\* get_merge_history is not called.
HistoryIdle ==
    /\ merge_history_file = [kind |-> "missing", merges |-> <<>>]
    /\ gmh_outcome = None

\* No walk is made.
ScopeIdle ==
    /\ walk_tree = Module(<<>>)
    /\ walk_state = None

\* The most structural changes recorded for the file, over all its tasks.
MaxChanges == 2

TaskIds == {"task-a", "task-b"}

\* The snippets the tests give a rename record.
SnippetBefore == "def foo():\n    pass"
SnippetAfter == "def bar():\n    pass"

Change(change_type, target, location, content_before, content_after) ==
    [change_type |-> change_type, target |-> target, location |-> location,
     content_before |-> content_before, content_after |-> content_after]

\* The structural changes a task may have recorded.  A rename is recorded as
\* the tests record it: target the new name, location function:<old name>.
Changes ==
    {Change("RENAME_FUNCTION", "bar", "function:foo", Some(SnippetBefore), Some(SnippetAfter)),
     Change("RENAME_FUNCTION", "bar", "function:foo", None, None),
     Change("RENAME_FUNCTION", "foo", "function:old_foo",
            Some("def old_foo():\n    pass"), Some(SnippetBefore)),
     Change("REMOVE_IMPORT", "Dict", "import:Dict", None, None),
     Change("REMOVE_IMPORT", "User", "import:User", None, None)}

\* The (before, after) pairs a task may have produced.
TextPairs ==
    {<<"caller_plain", "calls_foo">>,
     <<"calls_foo", "calls_bar">>,
     <<"caller_plain", "uses_Dict">>,
     <<"imports_Dict", "imports_Dict">>,
     <<"user", "user_or_none">>,
     <<"user", "optional_user">>,
     <<"user_or_none", "user">>,
     <<"user", "admin">>,
     <<"user_unannotated", "user_or_none">>,
     <<"user", "broken">>,
     <<"user", "mixed">>}

\* The iteration orders of a dict keyed by task id.
TaskOrders ==
    {s \in UNION {[1..n -> TaskIds] : n \in 0..Cardinality(TaskIds)} :
        \A i, j \in 1..Len(s) : i # j => s[i] # s[j]}

\* The detectors treat task ids as opaque keys, so the orders of task_analyses
\* are taken up to the exchange of the two ids: its first key is task-a.  The
\* order of file_contents stays free, so both relative orders occur.
AnalysisOrders == {s \in TaskOrders : Len(s) > 0 => s[1] = "task-a"}

ChangeLists == UNION {[1..n -> Changes] : n \in 0..MaxChanges}

RECURSIVE TotalLen(_)
TotalLen(lists) == IF Len(lists) = 0 THEN 0 ELSE Len(Head(lists)) + TotalLen(Tail(lists))

Init ==
    /\ ScopeIdle
    /\ HistoryIdle
    /\ UpdaterIdle
    /\ OperationIdle
    /\ ClassifyIdle
    /\ \E order \in AnalysisOrders, file_path \in FilePaths :
         \E chs \in [1..Len(order) -> ChangeLists] :
            /\ TotalLen(chs) <= MaxChanges
            /\ task_analyses =
                 [i \in 1..Len(order) |->
                    [key |-> order[i],
                     value |-> [file_path |-> file_path, changes |-> chs[i]]]]
    /\ \E order \in TaskOrders :
         \E pairs \in [1..Len(order) -> TextPairs] :
            file_contents = [i \in 1..Len(order) |-> [key |-> order[i], value |-> pairs[i]]]
    /\ called = "none"
    /\ result = <<>>
    /\ built = <<>>
    /\ TableIdle
    /\ CacheIdle

CallFunctionRename ==
    /\ called = "none"
    /\ called' = "detect_function_rename_conflicts"
    /\ result' = detect_function_rename_conflicts(task_analyses, file_contents)
    /\ built' = function_rename_builds(task_analyses, file_contents)
    /\ UNCHANGED <<task_analyses, file_contents>>
    /\ UNCHANGED <<table_vars, cache_vars, classify_vars, operation_vars, updater_vars, history_vars, scope_vars>>

CallImportRemoval ==
    /\ called = "none"
    /\ called' = "detect_import_removal_conflicts"
    /\ result' = detect_import_removal_conflicts(task_analyses, file_contents)
    /\ built' = import_removal_builds(task_analyses, file_contents)
    /\ UNCHANGED <<task_analyses, file_contents>>
    /\ UNCHANGED <<table_vars, cache_vars, classify_vars, operation_vars, updater_vars, history_vars, scope_vars>>

CallVariableRename ==
    /\ called = "none"
    /\ called' = "detect_variable_rename_conflicts"
    /\ result' = detect_variable_rename_conflicts(task_analyses, file_contents)
    /\ built' = variable_rename_builds(task_analyses, file_contents)
    /\ UNCHANGED <<task_analyses, file_contents>>
    /\ UNCHANGED <<table_vars, cache_vars, classify_vars, operation_vars, updater_vars, history_vars, scope_vars>>

CallTypeChange ==
    /\ called = "none"
    /\ called' = "detect_type_change_conflicts"
    /\ result' = detect_type_change_conflicts(task_analyses, file_contents)
    /\ built' = type_change_builds(task_analyses, file_contents)
    /\ UNCHANGED <<task_analyses, file_contents>>
    /\ UNCHANGED <<table_vars, cache_vars, classify_vars, operation_vars, updater_vars, history_vars, scope_vars>>

CallSemanticConflicts ==
    /\ called = "none"
    /\ called' = "detect_semantic_conflicts"
    /\ result' = detect_semantic_conflicts(task_analyses, file_contents)
    /\ built' = semantic_builds(task_analyses, file_contents)
    /\ UNCHANGED <<task_analyses, file_contents>>
    /\ UNCHANGED <<table_vars, cache_vars, classify_vars, operation_vars, updater_vars, history_vars, scope_vars>>

Next ==
    \/ CallFunctionRename
    \/ CallImportRemoval
    \/ CallVariableRename
    \/ CallTypeChange
    \/ CallSemanticConflicts

Spec == Init /\ [][Next]_vars

(***************************************************************************)
(* The same calls on inputs with texts that yield no table                 *)
(***************************************************************************)

\* The (before, after) pairs a task may have produced, when texts may fail:
\* by a syntax error or another exception, in the before- or the after-text.
FailingPairs ==
    {<<"caller_plain", "calls_foo">>,
     <<"caller_plain", "uses_Dict">>,
     <<"user", "user_or_none">>,
     <<"user", "broken">>,
     <<"broken", "user_or_none">>,
     <<"user", "deep_expression">>,
     <<"lone_surrogate", "mixed">>}

InitFailing ==
    /\ ScopeIdle
    /\ HistoryIdle
    /\ UpdaterIdle
    /\ OperationIdle
    /\ ClassifyIdle
    /\ \E order \in AnalysisOrders, file_path \in FilePaths :
         \E chs \in [1..Len(order) -> ChangeLists] :
            /\ TotalLen(chs) <= MaxChanges
            /\ task_analyses =
                 [i \in 1..Len(order) |->
                    [key |-> order[i],
                     value |-> [file_path |-> file_path, changes |-> chs[i]]]]
    /\ \E order \in TaskOrders :
         \E pairs \in [1..Len(order) -> FailingPairs] :
            file_contents = [i \in 1..Len(order) |-> [key |-> order[i], value |-> pairs[i]]]
    /\ called = "none"
    /\ result = <<>>
    /\ built = <<>>
    /\ TableIdle
    /\ CacheIdle

SpecFailing == InitFailing /\ [][Next]_vars

(***************************************************************************)
(* Direct calls of build_symbol_table                                      *)
(***************************************************************************)

\* Paths with and without the supported extension, in the forms pathlib
\* tells apart.
TablePaths ==
    {"test.py", "test.PY", "src/a.b/test.py", "test.tar.py",
     "test.js", "test", ".py", "test.", "test.pyi", "test.py.bak", "src/pkg.py/test",
     "py", "test.p"}

InitTable ==
    /\ ScopeIdle
    /\ HistoryIdle
    /\ UpdaterIdle
    /\ OperationIdle
    /\ ClassifyIdle
    /\ DetectorIdle
    /\ CacheIdle
    /\ bst_file_path \in TablePaths
    /\ bst_content \in DOMAIN SourceTexts
    /\ bst_outcome = None

CallBuildSymbolTable ==
    /\ IsNone(bst_outcome)
    /\ bst_outcome' = Some(build_symbol_table_outcome(bst_file_path, bst_content))
    /\ UNCHANGED <<bst_file_path, bst_content>>
    /\ UNCHANGED <<detector_vars, cache_vars, classify_vars, operation_vars, updater_vars, history_vars, scope_vars>>

NextTable == CallBuildSymbolTable

SpecTable == InitTable /\ [][NextTable]_vars

(***************************************************************************)
(* Calls on a LinearConnectionCache, with time passing in between          *)
(***************************************************************************)

\* The most calls made on the cache, and the latest clock value.
MaxCalls == 4
MaxTime == 3

FailureThresholds == {1, 2, 3}
CacheDurations == {0, 1, 2}

\* A transient and a non-transient error, as the tests build them.
ErrorInfos ==
    {LinearErrorInfo("NETWORK_ERROR", TRUE), LinearErrorInfo("AUTH_ERROR", FALSE)}

CallRecord(op, is_transient, returned) ==
    [op |-> op, is_transient |-> is_transient, returned |-> returned, at |-> now]

InitCache ==
    /\ ScopeIdle
    /\ HistoryIdle
    /\ UpdaterIdle
    /\ OperationIdle
    /\ ClassifyIdle
    /\ DetectorIdle
    /\ TableIdle
    /\ \E failure_threshold \in FailureThresholds, cache_duration \in CacheDurations :
         connection_cache = LinearConnectionCache(failure_threshold, cache_duration)
    /\ now = 0
    /\ calls = <<>>

RecordSuccess ==
    /\ Len(calls) < MaxCalls
    /\ connection_cache' = record_success(connection_cache)
    /\ calls' = Append(calls, CallRecord("record_success", FALSE, TRUE))
    /\ UNCHANGED <<now, detector_vars, table_vars, classify_vars, operation_vars, updater_vars, history_vars, scope_vars>>

RecordFailure ==
    /\ Len(calls) < MaxCalls
    /\ \E error_info \in ErrorInfos :
         /\ connection_cache' = record_failure(connection_cache, error_info, now)
         /\ calls' = Append(calls, CallRecord("record_failure", error_info.is_transient, TRUE))
    /\ UNCHANGED <<now, detector_vars, table_vars, classify_vars, operation_vars, updater_vars, history_vars, scope_vars>>

IsAvailable ==
    /\ Len(calls) < MaxCalls
    /\ LET outcome == is_available(connection_cache, now)
       IN  /\ connection_cache' = outcome.cache
           /\ calls' = Append(calls, CallRecord("is_available", FALSE, outcome.returned))
    /\ UNCHANGED <<now, detector_vars, table_vars, classify_vars, operation_vars, updater_vars, history_vars, scope_vars>>

\* Time passes.
Tick ==
    /\ now < MaxTime
    /\ now' = now + 1
    /\ UNCHANGED <<connection_cache, calls, detector_vars, table_vars, classify_vars, operation_vars, updater_vars, history_vars, scope_vars>>

NextCache ==
    \/ RecordSuccess
    \/ RecordFailure
    \/ IsAvailable
    \/ Tick

SpecCache == InitCache /\ [][NextCache]_vars

(***************************************************************************)
(* Vocabulary of the properties                                            *)
(***************************************************************************)

\* The detection is run for at least one task.
HasTasks == Len(task_analyses) > 0

\* The tasks that have a (before, after) pair, and the pair's tables.
ContentTasks == {file_contents[i].key : i \in 1..Len(file_contents)}
PairOf(task_id) ==
    file_contents[CHOOSE i \in 1..Len(file_contents) : file_contents[i].key = task_id].value
BeforeTable(task_id) == SymbolTables[FirstFilePath(task_analyses), PairOf(task_id)[1]]
AfterTable(task_id) == SymbolTables[FirstFilePath(task_analyses), PairOf(task_id)[2]]

\* The structural changes of the input, with the task that recorded each.
Elements(seq) == {seq[i] : i \in 1..Len(seq)}
Recorded == Elements(ChangeItems(task_analyses))

\* Position of the last record satisfying P, 0 if none.
LastRecord(P(_)) ==
    LET items == ChangeItems(task_analyses)
        hits  == {i \in 1..Len(items) : P(items[i])}
    IN  IF hits = {} THEN 0 ELSE CHOOSE i \in hits : \A j \in hits : j <= i

\* Position of the first record satisfying P, 0 if none.
FirstRecord(P(_)) ==
    LET items == ChangeItems(task_analyses)
        hits  == {i \in 1..Len(items) : P(items[i])}
    IN  IF hits = {} THEN 0 ELSE CHOOSE i \in hits : \A j \in hits : i <= j

\* A rename record as the tests populate it: location is function:<old name>,
\* target is the new name.
RecordedOldName(change) == SubSeq(change.location, Len("function:") + 1, Len(change.location))
RecordedNewName(change) == change.target

\* The entries of the last result that satisfy P.
Found(P(_)) == {i \in 1..Len(result) : P(result[i])}

\* What a text contains, read off its tree independently of the extractor:
\* the names read in a load context, the names called, the names imported.
RECURSIVE LoadedNames(_)
LoadedNames(node) ==
    (IF node.type = "Name" /\ node.ctx = Load THEN {node.id} ELSE {})
    \cup UNION {LoadedNames(Children(node)[i]) : i \in 1..Len(Children(node))}

RECURSIVE CalledNames(_)
CalledNames(node) ==
    (IF node.type = "Call" /\ node.func.type = "Name" THEN {node.func.id}
     ELSE IF node.type = "Call" /\ node.func.type = "Attribute" THEN {node.func.attr}
     ELSE {})
    \cup UNION {CalledNames(Children(node)[i]) : i \in 1..Len(Children(node))}

RECURSIVE ImportedNames(_)
ImportedNames(node) ==
    (IF node.type \in {"Import", "ImportFrom"}
     THEN {IF Truthy(node.names[i].asname) THEN Value(node.names[i].asname)
           ELSE node.names[i].name : i \in 1..Len(node.names)}
     ELSE {})
    \cup UNION {ImportedNames(Children(node)[i]) : i \in 1..Len(Children(node))}

TextFacts ==
    [content \in DOMAIN SourceTexts |->
        [parses |-> /\ SourceTexts[content].syntax_ok
                    /\ IsNone(SourceTexts[content].raises),
         loads |-> LoadedNames(SourceTexts[content].tree),
         calls |-> CalledNames(SourceTexts[content].tree),
         imports |-> ImportedNames(SourceTexts[content].tree)]]

\* The after-text of a task parses as a file of the supported grammar.
PythonPaths == {file_path \in FilePaths : StrLower(PathSuffix(file_path)) = ".py"}
AfterParses(task_id) ==
    /\ FirstFilePath(task_analyses) \in PythonPaths
    /\ TextFacts[PairOf(task_id)[2]].parses
AfterCalls(task_id, name) == name \in TextFacts[PairOf(task_id)[2]].calls
AfterUses(task_id, name) == name \in TextFacts[PairOf(task_id)[2]].loads
AfterImports(task_id, name) == name \in TextFacts[PairOf(task_id)[2]].imports

C1_Case(it, b) ==
    /\ it.change.change_type = "RENAME_FUNCTION"
    /\ Truthy(it.change.content_before) /\ Truthy(it.change.content_after)
    /\ RecordedOldName(it.change) # RecordedNewName(it.change)
    /\ b # it.task_id
    /\ AfterParses(b)
    /\ AfterCalls(b, RecordedOldName(it.change))

(***************************************************************************)
(* C1  Cross-task rename is a conflict: task A recorded, with snippets, a  *)
(* rename of old to new, and a different task B's after-text still calls   *)
(* old; then detect_function_rename_conflicts yields exactly one conflict  *)
(* naming A and B, of kind function_rename and severity HIGH.              *)
(***************************************************************************)
C1_CrossTaskRenameIsConflict ==
    called = "detect_function_rename_conflicts" =>
        \A it \in Recorded : \A b \in ContentTasks :
            C1_Case(it, b) =>
                LET hits == Found(LAMBDA c : c.tasks_involved = <<it.task_id, b>>)
                IN  /\ Cardinality(hits) = 1
                    /\ \A i \in hits :
                        /\ result[i].conflict_type = "function_rename"
                        /\ result[i].severity = "HIGH"
                        /\ result[i].location = "function:" \o RecordedOldName(it.change)

\* The task recorded as removing the import of symbol.
RemovingTask(symbol) ==
    ChangeItems(task_analyses)[
        LastRecord(LAMBDA it : /\ it.change.change_type = "REMOVE_IMPORT"
                               /\ it.change.target = symbol)].task_id

RemovedSymbols ==
    {it.change.target : it \in {r \in Recorded : r.change.change_type = "REMOVE_IMPORT"}}

C2_Case(symbol, b) ==
    /\ symbol \in RemovedSymbols
    /\ b \in ContentTasks
    /\ b # RemovingTask(symbol)
    /\ AfterParses(b)
    /\ AfterUses(b, symbol)
    /\ ~AfterImports(b, symbol)

SingleTask(t) == DictKeys(task_analyses) = <<t>> /\ DictKeys(file_contents) = <<t>>

\* Both texts of the task parse and declare func_name, with return
\* annotations old (before) and new (after).
ReturnChanges(t, func_name, old, new) ==
    /\ ~IsNone(BeforeTable(t)) /\ ~IsNone(AfterTable(t))
    /\ DictHas(Value(BeforeTable(t)).function_signatures, func_name)
    /\ DictHas(Value(AfterTable(t)).function_signatures, func_name)
    /\ DictGet(Value(BeforeTable(t)).function_signatures, func_name) = Some(old)
    /\ DictGet(Value(AfterTable(t)).function_signatures, func_name) = Some(new)

Annotations == {"User", "User | None", "Optional[User]", "Admin", "int"}
NoneAnnotations == {a \in Annotations : StrContains(a, "None")}
OptionalAnnotations == {a \in Annotations : StrContains(a, "Optional")}
FunctionNames == {"get_user", "process", "caller", "foo", "bar"}

(***************************************************************************)
(* C3  Nullable return-type broadening is a conflict: the detection is run *)
(* for a single task, whose record and (before, after) pair are both       *)
(* given; its before-text declares f with a return annotation T without    *)
(* None and its after-text declares f with T | None; then                  *)
(* detect_type_change_conflicts yields exactly one conflict, of kind       *)
(* type_change, severity MEDIUM, naming exactly that task.                 *)
(***************************************************************************)
C3_BroadeningIsConflict ==
    called = "detect_type_change_conflicts" =>
        \A t \in TaskIds : SingleTask(t) =>
            \A func_name \in FunctionNames : \A old \in Annotations \ NoneAnnotations :
                ReturnChanges(t, func_name, old, old \o " | None")
                => /\ Len(result) = 1
                   /\ result[1].conflict_type = "type_change"
                   /\ result[1].severity = "MEDIUM"
                   /\ result[1].tasks_involved = <<t>>
                   /\ result[1].location = "function:" \o func_name

C3_Witness ==
    /\ called = "detect_type_change_conflicts"
    /\ \E t \in TaskIds :
        /\ SingleTask(t)
        /\ ReturnChanges(t, "get_user", "User", "User | None")
        /\ Len(result) = 1

(***************************************************************************)
(* C4  The "optional"-style nullability marker is flagged like the         *)
(* "none"-style one: in the setting of C3, a change of f's return          *)
(* annotation from T to Optional[T] yields one MEDIUM type_change          *)
(* conflict.                                                               *)
(***************************************************************************)
C4_OptionalMarkerIsConflict ==
    called = "detect_type_change_conflicts" =>
        \A t \in TaskIds : SingleTask(t) =>
            \A func_name \in FunctionNames :
                \A old \in Annotations \ (NoneAnnotations \cup OptionalAnnotations) :
                    ReturnChanges(t, func_name, old, "Optional[" \o old \o "]")
                    => /\ Len(result) = 1
                       /\ result[1].conflict_type = "type_change"
                       /\ result[1].severity = "MEDIUM"
                       /\ result[1].tasks_involved = <<t>>

\* The only task t recorded a rename, with snippets, and its texts call the
\* old name before and the new name, not the old one, after.
C5_Case(t) ==
    /\ SingleTask(t)
    /\ \E it \in Recorded :
        /\ it.change.change_type = "RENAME_FUNCTION"
        /\ Truthy(it.change.content_before) /\ Truthy(it.change.content_after)
        /\ RecordedOldName(it.change) # RecordedNewName(it.change)
        /\ RecordedOldName(it.change) \in TextFacts[PairOf(t)[1]].calls
        /\ AfterParses(t)
        /\ AfterCalls(t, RecordedNewName(it.change))
        /\ ~AfterCalls(t, RecordedOldName(it.change))

(***************************************************************************)
(* C5  Same-task rename is not a conflict: no function_rename conflict     *)
(* names the same task as renamer and as caller; and when the only task    *)
(* renames a function and updates its own call from the old to the new     *)
(* name, detect_function_rename_conflicts yields no conflict.              *)
(***************************************************************************)
C5_SameTaskRenameNoConflict ==
    called = "detect_function_rename_conflicts" =>
        /\ \A i \in 1..Len(result) :
            result[i].tasks_involved[1] # result[i].tasks_involved[2]
        /\ \A t \in TaskIds : C5_Case(t) => result = <<>>

C5_Witness ==
    /\ called = "detect_function_rename_conflicts"
    /\ \E t \in TaskIds : C5_Case(t) /\ result = <<>>

LocationName(location, prefix) == SubSeq(location, Len(prefix) + 1, Len(location))

(***************************************************************************)
(* C6  Unused import removal is not a conflict: every import_removal       *)
(* conflict, for symbol S and consuming task B, has B different from the   *)
(* task recorded as removing S, and B's after-text parses, reads S and     *)
(* does not import S.                                                      *)
(***************************************************************************)
C6_ImportConflictOnlyIfUsed ==
    called = "detect_import_removal_conflicts" =>
        \A i \in 1..Len(result) :
            LET c      == result[i]
                symbol == LocationName(c.location, "import:")
            IN  /\ c.conflict_type = "import_removal"
                /\ StartsWith(c.location, "import:")
                /\ Len(c.tasks_involved) = 2
                /\ symbol \in RemovedSymbols
                /\ c.tasks_involved[1] = RemovingTask(symbol)
                /\ c.tasks_involved[2] # c.tasks_involved[1]
                /\ c.tasks_involved[2] \in ContentTasks
                /\ AfterParses(c.tasks_involved[2])
                /\ AfterUses(c.tasks_involved[2], symbol)
                /\ ~AfterImports(c.tasks_involved[2], symbol)

\* Another task reads the removed symbol but imports it itself: no conflict.
C6_Witness ==
    /\ called = "detect_import_removal_conflicts"
    /\ "Dict" \in RemovedSymbols
    /\ \E b \in ContentTasks :
        /\ b # RemovingTask("Dict")
        /\ AfterUses(b, "Dict") /\ AfterImports(b, "Dict")
    /\ result = <<>>

(***************************************************************************)
(* C7  Return-type changes other than gaining None are never flagged:      *)
(* every type_change conflict, for task T and function f, has f declared   *)
(* with a return annotation in both texts of T, the after annotation       *)
(* containing None and the before annotation not.                          *)
(***************************************************************************)
C7_TypeConflictOnlyIfNoneAdded ==
    called = "detect_type_change_conflicts" =>
        \A i \in 1..Len(result) :
            LET c         == result[i]
                t         == c.tasks_involved[1]
                func_name == LocationName(c.location, "function:")
            IN  /\ c.conflict_type = "type_change"
                /\ StartsWith(c.location, "function:")
                /\ t \in ContentTasks
                /\ \E old \in Annotations \ NoneAnnotations, new \in NoneAnnotations :
                    ReturnChanges(t, func_name, old, new)

\* Narrowing (User | None to User) and substitution (User to Admin), by two
\* tasks, give no conflict.
C7_Witness ==
    /\ called = "detect_type_change_conflicts"
    /\ HasTasks
    /\ \E t, u \in ContentTasks :
        /\ ReturnChanges(t, "get_user", "User | None", "User")
        /\ ReturnChanges(u, "get_user", "User", "Admin")
    /\ result = <<>>

\* The internal conflicts the detectors report for the input, pass by pass.
DetectorFindings ==
    detect_function_rename_conflicts(task_analyses, file_contents)
    \o detect_import_removal_conflicts(task_analyses, file_contents)
    \o detect_variable_rename_conflicts(task_analyses, file_contents)
    \o detect_type_change_conflicts(task_analyses, file_contents)

ConflictKinds == {"function_rename", "import_removal", "variable_rename", "type_change"}

(***************************************************************************)
(* C8  Aggregated region invariants: every ConflictRegion returned by      *)
(* detect_semantic_conflicts has can_auto_merge false, merge_strategy      *)
(* HUMAN_REQUIRED, and a reason made of "[Semantic: <conflict kind>] ",     *)
(* the conflict's description and, when the conflict carries a             *)
(* suggestion, " Suggestion: " and the suggestion.                         *)
(***************************************************************************)
C8_RegionInvariants ==
    called = "detect_semantic_conflicts" =>
        \A i \in 1..Len(result) :
            /\ result[i].can_auto_merge = FALSE
            /\ result[i].merge_strategy = "HUMAN_REQUIRED"
            /\ \E c \in Elements(DetectorFindings) :
                /\ c.conflict_type \in ConflictKinds
                /\ result[i].reason =
                      "[Semantic: " \o c.conflict_type \o "] " \o c.description
                      \o (IF IsNone(c.suggestion) THEN ""
                          ELSE " Suggestion: " \o Value(c.suggestion))

\* Regions of two kinds are returned.
C8_Witness ==
    /\ called = "detect_semantic_conflicts"
    /\ \E i, j \in 1..Len(result) :
        /\ StartsWith(result[i].reason, "[Semantic: import_removal] Task ")
        /\ StartsWith(result[j].reason, "[Semantic: type_change] Task ")

ExternalKind ==
    [function_rename |-> "RENAME_FUNCTION", import_removal |-> "REMOVE_IMPORT",
     variable_rename |-> "MODIFY_VARIABLE", type_change |-> "MODIFY_FUNCTION"]

OtherKinds == {"", "rename", "type_changes", "FUNCTION_RENAME", "unknown"}

\* Region i copies finding i, with one external change kind per task.
RegionsCopy(regions, findings) ==
    /\ Len(regions) = Len(findings)
    /\ \A i \in 1..Len(regions) :
        LET c == findings[i]
            r == regions[i]
        IN  /\ Len(r.change_types) = Len(r.tasks_involved)
            /\ \A k \in 1..Len(r.change_types) :
                  r.change_types[k] = ExternalKind[c.conflict_type]
            /\ r.severity = c.severity
            /\ r.file_path = c.file_path
            /\ r.location = c.location
            /\ r.tasks_involved = c.tasks_involved

(***************************************************************************)
(* C9  Every returned ConflictRegion has one change kind per involved      *)
(* task, all equal to the external kind of the conflict kind               *)
(* (function_rename: RENAME_FUNCTION, import_removal: REMOVE_IMPORT,       *)
(* variable_rename: MODIFY_VARIABLE, type_change: MODIFY_FUNCTION, any     *)
(* other: UNKNOWN), and copies severity, file path, location and           *)
(* tasks_involved from the internal conflict.                              *)
(***************************************************************************)
C9_RegionCopiesConflict ==
    called = "detect_semantic_conflicts" =>
        /\ RegionsCopy(result, DetectorFindings)
        /\ \A kind \in ConflictKinds : change_type_map(kind) = ExternalKind[kind]
        /\ \A kind \in OtherKinds : change_type_map(kind) = "UNKNOWN"

\* A two-task region and a one-task region are returned.
C9_Witness ==
    /\ called = "detect_semantic_conflicts"
    /\ \E i, j \in 1..Len(result) :
        /\ result[i].change_types = <<"RENAME_FUNCTION", "RENAME_FUNCTION">>
        /\ result[j].change_types = <<"MODIFY_FUNCTION">>

PassOf(region) ==
    CASE region.change_types[1] = "RENAME_FUNCTION" -> 1
      [] region.change_types[1] = "REMOVE_IMPORT" -> 2
      [] region.change_types[1] = "MODIFY_VARIABLE" -> 3
      [] region.change_types[1] = "MODIFY_FUNCTION" -> 4
      [] OTHER -> 5

\* Position of a task in the iteration order of file_contents.
ContentPosition(task_id) ==
    CHOOSE i \in 1..Len(file_contents) : file_contents[i].key = task_id

\* Position of the first record that enters the pass's dict under the name.
FirstRecordedAt(pass, name) ==
    IF pass = 1
    THEN FirstRecord(LAMBDA it : /\ it.change.change_type = "RENAME_FUNCTION"
                                 /\ Truthy(it.change.content_before)
                                 /\ Truthy(it.change.content_after)
                                 /\ it.change.target = name)
    ELSE FirstRecord(LAMBDA it : /\ it.change.change_type = "REMOVE_IMPORT"
                                 /\ it.change.target = name)

RegionName(region) ==
    IF StartsWith(region.location, "function:")
    THEN LocationName(region.location, "function:")
    ELSE LocationName(region.location, "import:")

(***************************************************************************)
(* C10  Output order of detect_semantic_conflicts: function_rename regions *)
(* precede import_removal regions, which precede type_change regions;      *)
(* within the rename and the import pass the regions follow the iteration  *)
(* order of task_file_contents and, for one task, the order in which the   *)
(* names were first recorded.                                              *)
(***************************************************************************)
C10_OutputOrder ==
    called = "detect_semantic_conflicts" =>
        \A i, j \in 1..Len(result) :
            i < j =>
                LET ri == result[i]
                    rj == result[j]
                IN  /\ PassOf(ri) <= PassOf(rj)
                    /\ (PassOf(ri) = PassOf(rj) /\ PassOf(ri) \in {1, 2}) =>
                        /\ ContentPosition(ri.tasks_involved[2])
                              <= ContentPosition(rj.tasks_involved[2])
                        /\ ri.tasks_involved[2] = rj.tasks_involved[2] =>
                              FirstRecordedAt(PassOf(ri), RegionName(ri))
                                 < FirstRecordedAt(PassOf(rj), RegionName(rj))

\* Two regions of the rename pass for one task, then a type_change region.
C10_Witness ==
    /\ called = "detect_semantic_conflicts"
    /\ Len(result) = 3
    /\ PassOf(result[1]) = 1 /\ PassOf(result[2]) = 1 /\ PassOf(result[3]) = 4
    /\ result[1].tasks_involved[2] = result[2].tasks_involved[2]

\* The conflict kind a region was made from, read off its change kinds.
RegionKind(region) ==
    CASE region.change_types[1] = "RENAME_FUNCTION" -> "function_rename"
      [] region.change_types[1] = "REMOVE_IMPORT" -> "import_removal"
      [] region.change_types[1] = "MODIFY_VARIABLE" -> "variable_rename"
      [] region.change_types[1] = "MODIFY_FUNCTION" -> "type_change"
      [] OTHER -> "unknown"

\* Some record of the given change type and target was made by the task.
RecordedBy(task_id, change_type, target) ==
    \E it \in Recorded :
        /\ it.task_id = task_id
        /\ it.change.change_type = change_type
        /\ it.change.target = target

\* The task's pair declares func_name in both texts with differing return
\* annotations (an absent annotation counts as one).
AnnotationChanged(task_id, func_name) ==
    /\ task_id \in ContentTasks
    /\ ~IsNone(BeforeTable(task_id)) /\ ~IsNone(AfterTable(task_id))
    /\ DictHas(Value(BeforeTable(task_id)).function_signatures, func_name)
    /\ DictHas(Value(AfterTable(task_id)).function_signatures, func_name)
    /\ DictGet(Value(BeforeTable(task_id)).function_signatures, func_name)
          # DictGet(Value(AfterTable(task_id)).function_signatures, func_name)

\* The tasks a conflict of the given kind and location names are the right
\* ones, in the right number and order.
NamesItsTasks(kind, location, tasks) ==
    /\ Len(tasks) > 0
    /\ kind \in {"function_rename", "import_removal", "type_change"}
    /\ kind = "function_rename" =>
        /\ Len(tasks) = 2
        /\ tasks[1] # tasks[2]
        /\ RecordedBy(tasks[1], "RENAME_FUNCTION", LocationName(location, "function:"))
        /\ tasks[2] \in ContentTasks
        /\ AfterCalls(tasks[2], LocationName(location, "function:"))
    /\ kind = "import_removal" =>
        /\ Len(tasks) = 2
        /\ tasks[1] # tasks[2]
        /\ RecordedBy(tasks[1], "REMOVE_IMPORT", LocationName(location, "import:"))
        /\ tasks[2] \in ContentTasks
        /\ AfterUses(tasks[2], LocationName(location, "import:"))
    /\ kind = "type_change" =>
        /\ Len(tasks) = 1
        /\ AnnotationChanged(tasks[1], LocationName(location, "function:"))

DetectorCalls ==
    {"detect_function_rename_conflicts", "detect_import_removal_conflicts",
     "detect_variable_rename_conflicts", "detect_type_change_conflicts"}

(***************************************************************************)
(* C11  Every conflict names its tasks: tasks_involved is never empty; a   *)
(* function_rename or import_removal conflict names exactly two distinct   *)
(* tasks, first one that recorded the structural change of the conflict's  *)
(* name and second one whose after-text calls or reads that name; a        *)
(* type_change conflict names exactly one task, whose (before, after) pair *)
(* changed the function's return annotation.  The same holds of the        *)
(* regions detect_semantic_conflicts makes of the conflicts.               *)
(***************************************************************************)
C11_ConflictNamesItsTasks ==
    /\ called \in DetectorCalls =>
        \A i \in 1..Len(result) :
            NamesItsTasks(result[i].conflict_type, result[i].location,
                          result[i].tasks_involved)
    /\ called = "detect_semantic_conflicts" =>
        \A i \in 1..Len(result) :
            /\ Len(result[i].tasks_involved) > 0
            /\ NamesItsTasks(RegionKind(result[i]), result[i].location,
                             result[i].tasks_involved)

\* A rename, an import-removal and a type_change conflict in one run.
C11_Witness ==
    /\ called = "detect_semantic_conflicts"
    /\ \E i, j, k \in 1..Len(result) :
        /\ RegionKind(result[i]) = "function_rename"
        /\ RegionKind(result[j]) = "import_removal"
        /\ RegionKind(result[k]) = "type_change"

(***************************************************************************)
(* C12  Empty input gives empty output: when task_analyses is empty, each  *)
(* detector and detect_semantic_conflicts return an empty list, whatever   *)
(* file_contents holds, and build no symbol table.                         *)
(***************************************************************************)
C12_EmptyInputEmptyOutput ==
    (called # "none" /\ Len(task_analyses) = 0) =>
        /\ result = <<>>
        /\ built = <<>>

\* No tasks, but the texts of two tasks, one of them broadening a return type.
C12_Witness ==
    /\ called = "detect_type_change_conflicts"
    /\ Len(task_analyses) = 0
    /\ Len(file_contents) = 2
    /\ \E i \in 1..Len(file_contents) : file_contents[i].value = <<"user", "user_or_none">>
    /\ result = <<>>

\* The paths of TablePaths that pathlib gives the suffix .py in some case.
PythonTablePaths == {"test.py", "test.PY", "src/a.b/test.py", "test.tar.py"}

\* The text makes ast.parse or the walk raise.
TextFails(content) ==
    ~SourceTexts[content].syntax_ok \/ ~IsNone(SourceTexts[content].raises)

(***************************************************************************)
(* C13  build_symbol_table yields no table and raises nothing in both      *)
(* failure cases: a path whose extension is not .py, whatever the text,    *)
(* and a .py path whose text has a syntax error or makes parsing or the    *)
(* walk raise another exception.  No call raises.                          *)
(***************************************************************************)
C13_NoTableNoRaise ==
    ~IsNone(bst_outcome) =>
        /\ IsNone(Value(bst_outcome).raised)
        /\ (bst_file_path \notin PythonTablePaths \/ TextFails(bst_content))
              => IsNone(Value(bst_outcome).value)

\* A .py path and a text whose walk raises RecursionError.
C13_Witness ==
    /\ ~IsNone(bst_outcome)
    /\ bst_file_path = "test.py"
    /\ bst_content = "deep_expression"
    /\ Value(bst_outcome) = [value |-> None, raised |-> None]

\* The tasks of file_contents whose after-text, and whose before- or
\* after-text, yields no table.
BeforeParses(task_id) ==
    /\ FirstFilePath(task_analyses) \in PythonPaths
    /\ TextFacts[PairOf(task_id)[1]].parses
UnparsedAfter == {t \in ContentTasks : ~AfterParses(t)}
UnparsedEither == {t \in ContentTasks : ~AfterParses(t) \/ ~BeforeParses(t)}

\* file_contents without the entry of a task.
ContentsWithout(task_id) == SelectSeq(file_contents, LAMBDA e : e.key # task_id)

\* The regions made of a list of conflicts.
RegionsOf(conflicts) == [i \in 1..Len(conflicts) |-> ConflictRegion(conflicts[i])]

\* The entries of a result whose checked task (the last one named) is not
\* the given task.
NotChecking(conflicts, task_id) ==
    SelectSeq(conflicts, LAMBDA c : c.tasks_involved[Len(c.tasks_involved)] # task_id)

\* What detect_semantic_conflicts finds when the rename and import passes
\* run without one task's texts and the type pass without another's.
FindingsWithout(consumer, changer) ==
    detect_function_rename_conflicts(task_analyses, ContentsWithout(consumer))
    \o detect_import_removal_conflicts(task_analyses, ContentsWithout(consumer))
    \o detect_type_change_conflicts(task_analyses, ContentsWithout(changer))

(***************************************************************************)
(* C14  A parse failure is skipped locally: a task whose after-text yields *)
(* no table is never the consuming task of a rename or import-removal      *)
(* conflict, a task whose before- or after-text yields no table is never   *)
(* the task of a type_change conflict, and the conflicts found are exactly *)
(* those found when the task is absent from file_contents.                 *)
(***************************************************************************)
C14_ParseFailureSkipped ==
    HasTasks =>
        /\ called = "detect_function_rename_conflicts" =>
            \A u \in UnparsedAfter :
                /\ NotChecking(result, u) = result
                /\ result = detect_function_rename_conflicts(task_analyses, ContentsWithout(u))
        /\ called = "detect_import_removal_conflicts" =>
            \A u \in UnparsedAfter :
                /\ NotChecking(result, u) = result
                /\ result = detect_import_removal_conflicts(task_analyses, ContentsWithout(u))
        /\ called = "detect_type_change_conflicts" =>
            \A u \in UnparsedEither :
                /\ NotChecking(result, u) = result
                /\ result = detect_type_change_conflicts(task_analyses, ContentsWithout(u))
        /\ called = "detect_semantic_conflicts" =>
            /\ \A u \in UnparsedAfter :
                /\ NotChecking(result, u) = result
                /\ result = RegionsOf(FindingsWithout(u, u))
            /\ \A u \in UnparsedEither \ UnparsedAfter :
                /\ \A i \in 1..Len(result) :
                    RegionKind(result[i]) = "type_change" => result[i].tasks_involved # <<u>>
                /\ result = RegionsOf(FindingsWithout("no task", u))

\* The first task's after-text does not parse; the second task's call is
\* reported all the same.
C14_Witness ==
    /\ called = "detect_function_rename_conflicts"
    /\ HasTasks
    /\ Len(file_contents) = 2
    /\ file_contents[1].key \in UnparsedAfter
    /\ Len(result) = 1
    /\ result[1].tasks_involved[2] = file_contents[2].key

\* The tasks that recorded an analysis.
AnalysisTasks == {task_analyses[i].key : i \in 1..Len(task_analyses)}

\* The task the last entry of tasks_involved names: the one whose texts the
\* detector examined.
CheckedTask(conflict) == conflict.tasks_involved[Len(conflict.tasks_involved)]

\* The renamed names in the detector's dict, and the task recorded for each.
RenamedNames ==
    {it.change.target : it \in {r \in Recorded : IsRecordedRename(r.change)}}
RenamingTask(name) ==
    ChangeItems(task_analyses)[
        LastRecord(LAMBDA it : IsRecordedRename(it.change) /\ it.change.target = name)].task_id

\* The last task of file_contents whose pair changes the annotation of
\* func_name is task_id.
LastChanger(task_id, func_name) ==
    /\ AnnotationChanged(task_id, func_name)
    /\ \A u \in ContentTasks :
        AnnotationChanged(u, func_name) => ContentPosition(u) <= ContentPosition(task_id)

\* One of the two tasks is known to one input map only.
OneSided(source, consumer) ==
    source \notin ContentTasks \/ consumer \notin AnalysisTasks

(***************************************************************************)
(* C15  Missing input is tolerated: the checked task of every conflict has *)
(* an entry in file_contents, so a task with an analysis and no texts is   *)
(* only ever the first task of a rename or import-removal conflict; its    *)
(* recorded changes still give those conflicts against the tasks that have *)
(* texts; and a task with texts and no analysis is still checked, as a     *)
(* consumer and for its own return-type changes.                           *)
(***************************************************************************)
C15_MissingInputTolerated ==
    HasTasks =>
        /\ called # "none" =>
            \A i \in 1..Len(result) : CheckedTask(result[i]) \in ContentTasks
        /\ called = "detect_import_removal_conflicts" =>
            \A symbol \in RemovedSymbols : \A b \in ContentTasks :
                (OneSided(RemovingTask(symbol), b) /\ C2_Case(symbol, b)) =>
                    \E i \in 1..Len(result) :
                        /\ result[i].location = "import:" \o symbol
                        /\ result[i].tasks_involved = <<RemovingTask(symbol), b>>
        /\ called = "detect_function_rename_conflicts" =>
            \A name \in RenamedNames : \A b \in ContentTasks :
                (/\ OneSided(RenamingTask(name), b)
                 /\ b # RenamingTask(name)
                 /\ AfterParses(b)
                 /\ AfterCalls(b, name)) =>
                    \E i \in 1..Len(result) :
                        /\ result[i].location = "function:" \o name
                        /\ result[i].tasks_involved = <<RenamingTask(name), b>>
        /\ called = "detect_type_change_conflicts" =>
            \A b \in ContentTasks \ AnalysisTasks : \A func_name \in FunctionNames :
                (/\ LastChanger(b, func_name)
                 /\ \E old \in Annotations \ NoneAnnotations, new \in NoneAnnotations :
                        ReturnChanges(b, func_name, old, new)) =>
                    \E i \in 1..Len(result) :
                        /\ result[i].location = "function:" \o func_name
                        /\ result[i].tasks_involved = <<b>>

\* The task that removed the import has no texts and the task that reads the
\* symbol has no analysis: the conflict is reported.
C15_Witness ==
    /\ called = "detect_import_removal_conflicts"
    /\ HasTasks
    /\ Len(result) = 1
    /\ result[1].tasks_involved[1] \in AnalysisTasks \ ContentTasks
    /\ result[1].tasks_involved[2] \in ContentTasks \ AnalysisTasks

LastCall == calls[Len(calls)]

\* The failures recorded so far.
RecordedFailures == SelectSeq(calls, LAMBDA c : c.op = "record_failure")

\* Nothing but transient failures has been recorded on the cache.
TransientRun ==
    \A i \in DOMAIN calls :
        /\ calls[i].op # "record_success"
        /\ calls[i].op = "record_failure" => calls[i].is_transient

\* No more than cache_duration has passed since the unavailable status was
\* last set.
WithinDuration ==
    \/ IsNone(connection_cache.cached_at)
    \/ now - Value(connection_cache.cached_at) <= connection_cache.cache_duration

\* What is_available() would return now.
AvailableNow == is_available(connection_cache, now).returned

\* C17: on a cache with failure_threshold N > 1 that has recorded k transient
\* failures and nothing else, the status is DEGRADED and is_available() is
\* true when 1 <= k < N, and the status is UNAVAILABLE and is_available() is
\* false when k >= N and cache_duration has not elapsed.
C17_Thresholds ==
    LET N == connection_cache.failure_threshold
        k == Len(RecordedFailures)
    IN  (TransientRun /\ N > 1) =>
            /\ (1 <= k /\ k < N) =>
                   /\ get_status(connection_cache) = "DEGRADED"
                   /\ AvailableNow
            /\ (k >= N /\ WithinDuration) =>
                   /\ get_status(connection_cache) = "UNAVAILABLE"
                   /\ ~AvailableNow

C17_Witness ==
    /\ TransientRun
    /\ connection_cache.failure_threshold = 3
    /\ Len(RecordedFailures) = 3
    /\ Len(calls) = 4
    /\ LastCall.op = "is_available" /\ ~LastCall.returned
    /\ get_status(connection_cache) = "UNAVAILABLE"

\* C18: right after record_failure with a non-transient error, get_status()
\* is UNAVAILABLE and is_available() is false, whatever the threshold, the
\* status before and the number of earlier failures.
C18_NonTransientUnavailable ==
    (/\ Len(calls) > 0
     /\ LastCall.op = "record_failure"
     /\ ~LastCall.is_transient
     /\ LastCall.at = now) =>
        /\ get_status(connection_cache) = "UNAVAILABLE"
        /\ ~AvailableNow

C18_Witness ==
    /\ Len(calls) = 2
    /\ calls[1].op = "record_failure" /\ calls[1].is_transient
    /\ LastCall.op = "record_failure" /\ ~LastCall.is_transient
    /\ LastCall.at = now
    /\ connection_cache.failure_threshold = 3
    /\ connection_cache.consecutive_failures = 2
    /\ get_status(connection_cache) = "UNAVAILABLE"

\* C19: after record_success, whatever the state it was called in, the status
\* is AVAILABLE, is_available() is true, the consecutive-failure count is 0
\* and the cached time stamp and the last error are cleared.
C19_SuccessResets ==
    (Len(calls) > 0 /\ LastCall.op = "record_success") =>
        /\ get_status(connection_cache) = "AVAILABLE"
        /\ AvailableNow
        /\ connection_cache.consecutive_failures = 0
        /\ IsNone(connection_cache.cached_at)
        /\ IsNone(get_last_error(connection_cache))

\* The success follows an unavailable status whose duration has run out.
C19_Witness ==
    /\ Len(calls) = 2
    /\ calls[1].op = "record_failure" /\ ~calls[1].is_transient
    /\ LastCall.op = "record_success"
    /\ LastCall.at - calls[1].at > connection_cache.cache_duration
    /\ get_status(connection_cache) = "AVAILABLE"

\* C20: while the status is UNAVAILABLE and no more than cache_duration has
\* passed since it was set, is_available() returns false and changes nothing;
\* once more than cache_duration has passed, the next is_available() returns
\* true and leaves the status DEGRADED and the consecutive-failure count 1,
\* whether the cause was a transient or a non-transient failure.
C20_UnavailableExpires ==
    get_status(connection_cache) = "UNAVAILABLE" =>
        LET outcome == is_available(connection_cache, now)
        IN  IF WithinDuration
            THEN /\ ~outcome.returned
                 /\ outcome.cache = connection_cache
            ELSE /\ outcome.returned
                 /\ get_status(outcome.cache) = "DEGRADED"
                 /\ outcome.cache.consecutive_failures = 1

\* An expiry after a non-transient failure, then one after the threshold of
\* transient failures.
C20_Witness ==
    /\ Len(calls) = 4
    /\ connection_cache.failure_threshold = 2
    /\ calls[1].op = "record_failure" /\ ~calls[1].is_transient
    /\ calls[2].op = "is_available" /\ calls[2].returned
    /\ calls[2].at - calls[1].at > connection_cache.cache_duration
    /\ calls[3].op = "record_failure" /\ calls[3].is_transient
    /\ calls[4].op = "is_available" /\ calls[4].returned
    /\ calls[4].at - calls[3].at > connection_cache.cache_duration
    /\ get_status(connection_cache) = "DEGRADED"
    /\ connection_cache.consecutive_failures = 1

(***************************************************************************)
(* Calls of classify_error                                                 *)
(***************************************************************************)

\* The messages of the tests.
TestMessages ==
    {"Network connection failed", "Request timeout", "Rate limit exceeded (429)",
     "Server error: 500 Internal Server Error", "Unauthorized: Invalid API key",
     "Validation error: Invalid team ID", "Something weird happened", ""}

\* Words an error message of the Linear client is made of.
MessageWords ==
    {"Network", "connection", "unreachable", "timeout", "rate limit", "429",
     "500", "503", "Authentication", "Unauthorized", "forbidden", "validation",
     "Invalid", "failed", "request"}

Messages ==
    TestMessages \cup MessageWords
        \cup {pair[1] \o " " \o pair[2] :
                 pair \in {q \in MessageWords \X MessageWords : q[1] # q[2]}}

ExceptionClasses == {"Exception", "TimeoutError"}

Errors == [cls : ExceptionClasses, message : Messages]

InitClassify ==
    /\ ScopeIdle
    /\ HistoryIdle
    /\ UpdaterIdle
    /\ OperationIdle
    /\ DetectorIdle
    /\ TableIdle
    /\ CacheIdle
    /\ ce_error \in Errors
    /\ ce_result = None

CallClassifyError ==
    /\ IsNone(ce_result)
    /\ ce_result' = Some(classify_error(ce_error))
    /\ UNCHANGED <<ce_error, detector_vars, table_vars, cache_vars, operation_vars, updater_vars, history_vars, scope_vars>>

NextClassify == CallClassifyError

SpecClassify == InitClassify /\ [][NextClassify]_vars

(***************************************************************************)
(* C27  classify_error marks auth and validation errors non-transient      *)
(***************************************************************************)

\* The message as the keyword tests see it.
LoweredMessage == StrLower(ce_error.message)

HasAuthWord ==
    \/ StrContains(LoweredMessage, "auth")
    \/ StrContains(LoweredMessage, "unauthorized")
    \/ StrContains(LoweredMessage, "forbidden")

HasValidationWord ==
    \/ StrContains(LoweredMessage, "validation")
    \/ StrContains(LoweredMessage, "invalid")

HasTransientWord ==
    \E w \in {"network", "connection", "dns", "unreachable", "timeout",
              "rate limit", "429", "500", "502", "503"} :
        StrContains(LoweredMessage, w)

\* C27: an error whose message contains an auth keyword is AUTH_ERROR and not
\* transient, one whose message contains a validation keyword and no auth
\* keyword is VALIDATION_ERROR and not transient, whatever else the message
\* contains; an error whose message contains no keyword is UNKNOWN and
\* transient.
C27_AuthAndValidationNonTransient ==
    ~IsNone(ce_result) =>
        /\ HasAuthWord =>
               Value(ce_result) = LinearErrorInfo("AUTH_ERROR", FALSE)
        /\ (HasValidationWord /\ ~HasAuthWord) =>
               Value(ce_result) = LinearErrorInfo("VALIDATION_ERROR", FALSE)
        /\ (~HasAuthWord /\ ~HasValidationWord /\ ~HasTransientWord
                /\ ~IsTimeoutError(ce_error)) =>
               Value(ce_result) = LinearErrorInfo("UNKNOWN", TRUE)

(***************************************************************************)
(* Calls of retry_with_backoff and linear_operation_with_fallback on the   *)
(* module's connection cache, one after the other, with time passing       *)
(***************************************************************************)

\* The most calls started.
MaxOperations == 2

Callers == {1}

\* max_retries of the tests' configurations.
RetryCounts == {0, 1, 2}

Entries == {"retry_with_backoff", "linear_operation_with_fallback"}

FallbackResult == Some("fallback")

\* What the operation function returns on its i-th invocation.
ResultOfInvocation(i) ==
    Some(<<"result-1", "result-2", "result-3", "result-4", "result-5">>[i])

\* What an attempt raises: a network error, an authorization error, and the
\* TimeoutError of wait_for.
RaisedErrors ==
    {[cls |-> "Exception", message |-> "Network connection failed"],
     [cls |-> "Exception", message |-> "Unauthorized: Invalid API key"],
     [cls |-> "TimeoutError", message |-> ""]}

\* classify_error is a function of the error alone.
ClassifiedErrors == [error \in RaisedErrors |-> classify_error(error)]

InitOperations ==
    /\ ScopeIdle
    /\ HistoryIdle
    /\ UpdaterIdle
    /\ DetectorIdle
    /\ TableIdle
    /\ ClassifyIdle
    /\ \E failure_threshold \in FailureThresholds, cache_duration \in CacheDurations :
         connection_cache = LinearConnectionCache(failure_threshold, cache_duration)
    /\ now = 0
    /\ calls = <<>>
    /\ frames = [o \in Callers |-> IdleFrame]
    /\ started = 0

\* The frame of a new call.
NewFrame(entry) ==
    [IdleFrame EXCEPT !.entry = entry, !.fallback_result = FallbackResult]

CallRetryWithBackoff(o) ==
    /\ frames[o].pc \in {"idle", "returned"}
    /\ started < MaxOperations
    /\ \E max_retries \in RetryCounts :
         frames' = [frames EXCEPT ![o] =
             retry_with_backoff(NewFrame("retry_with_backoff"), RetryConfig(max_retries))]
    /\ started' = started + 1
    /\ UNCHANGED <<cache_vars, detector_vars, table_vars, classify_vars, updater_vars, history_vars, scope_vars>>

CallLinearOperationWithFallback(o) ==
    /\ frames[o].pc \in {"idle", "returned"}
    /\ started < MaxOperations
    /\ LET check == is_available(connection_cache, now)
           frame == [NewFrame("linear_operation_with_fallback") EXCEPT
                         !.checked = Some([available |-> check.returned,
                                           cache |-> connection_cache,
                                           at |-> now])]
       IN  /\ connection_cache' = check.cache
           /\ \E max_retries \in RetryCounts :
                frames' = [frames EXCEPT ![o] =
                    linear_operation_with_fallback(frame, RetryConfig(max_retries),
                                                   check.returned)]
    /\ started' = started + 1
    /\ UNCHANGED <<now, calls, detector_vars, table_vars, classify_vars, updater_vars, history_vars, scope_vars>>

\* The operation function returns: `_connection_cache.record_success()` and
\* `return (True, result)`.
AttemptSucceeds(o) ==
    /\ frames[o].pc = "running"
    /\ connection_cache' = record_success(connection_cache)
    /\ frames' = [frames EXCEPT ![o] =
           attempt_succeeded(frames[o], ResultOfInvocation(frames[o].invocations))]
    /\ UNCHANGED <<now, calls, started, detector_vars, table_vars, classify_vars, updater_vars, history_vars, scope_vars>>

\* The operation function raises, or wait_for raises TimeoutError.
AttemptFails(o) ==
    /\ frames[o].pc = "running"
    /\ \E error \in RaisedErrors :
         LET after == attempt_raised(frames[o], error, ClassifiedErrors[error])
         IN  /\ frames' = [frames EXCEPT ![o] = after.frame]
             /\ connection_cache' =
                    IF after.recorded
                    THEN record_failure(connection_cache, ClassifiedErrors[error], now)
                    ELSE connection_cache
    /\ UNCHANGED <<now, calls, started, detector_vars, table_vars, classify_vars, updater_vars, history_vars, scope_vars>>

\* asyncio.sleep(delay) returns.
SleepReturns(o) ==
    /\ frames[o].pc = "sleeping"
    /\ frames' = [frames EXCEPT ![o] = sleep_over(frames[o])]
    /\ UNCHANGED <<started, cache_vars, detector_vars, table_vars, classify_vars, updater_vars, history_vars, scope_vars>>

NextOperations ==
    \/ \E o \in Callers : CallRetryWithBackoff(o)
    \/ \E o \in Callers : CallLinearOperationWithFallback(o)
    \/ \E o \in Callers : AttemptSucceeds(o)
    \/ \E o \in Callers : AttemptFails(o)
    \/ \E o \in Callers : SleepReturns(o)
    \/ Tick

SpecOperations == InitOperations /\ [][NextOperations]_vars

(***************************************************************************)
(* Vocabulary of the retry and fallback claims                             *)
(***************************************************************************)

\* The frames of the calls that entered retry_with_backoff.
RetryFrames ==
    {frames[o] : o \in {c \in DOMAIN frames :
                            \/ frames[c].invocations > 0
                            \/ ~IsNone(frames[c].retry_result)}}

\* The attempts that failed, the transient ones among them, and the ones
\* that succeeded.
FailedAttempts(frame) ==
    {i \in 1..Len(frame.outcomes) : ~IsNone(frame.outcomes[i])}

TransientAttempts(frame) ==
    {i \in FailedAttempts(frame) : Value(frame.outcomes[i]).is_transient}

SucceededAttempts(frame) ==
    {i \in 1..Len(frame.outcomes) : IsNone(frame.outcomes[i])}

RetryReturned(frame) == ~IsNone(frame.retry_result)

\* C21: with max_retries = R >= 0 the operation is invoked at most R + 1
\* times; when every attempt fails with a transient error it is invoked
\* exactly R + 1 times and (False, None) is returned; when attempt i succeeds,
\* (True, result of attempt i) is returned after exactly i invocations.
C21_AttemptsBounded ==
    \A frame \in RetryFrames :
        LET R == frame.config.max_retries
        IN  R >= 0 =>
                /\ frame.invocations <= R + 1
                /\ (/\ RetryReturned(frame)
                    /\ TransientAttempts(frame) = 1..Len(frame.outcomes)) =>
                        /\ frame.invocations = R + 1
                        /\ Value(frame.retry_result) = <<FALSE, None>>
                /\ \A i \in SucceededAttempts(frame) :
                        /\ RetryReturned(frame)
                        /\ frame.invocations = i
                        /\ Value(frame.retry_result) = <<TRUE, ResultOfInvocation(i)>>

\* Two transient failures, then a success on the last attempt allowed.
C21_Witness ==
    \E frame \in RetryFrames :
        /\ frame.config.max_retries = 2
        /\ TransientAttempts(frame) = {1, 2}
        /\ SucceededAttempts(frame) = {3}
        /\ frame.invocations = 3
        /\ Value(frame.retry_result) = <<TRUE, ResultOfInvocation(3)>>

\* C22: when an attempt, the first or a later one, fails with a non-transient
\* error, no further invocation and no further sleep happens, the failure is
\* recorded in the connection cache and (False, None) is returned.
C22_NonTransientNotRetried ==
    \A frame \in RetryFrames :
        \A i \in FailedAttempts(frame) \ TransientAttempts(frame) :
            /\ Len(frame.outcomes) = i
            /\ frame.invocations = i
            /\ Len(frame.waits) = i - 1
            /\ RetryReturned(frame)
            /\ Value(frame.retry_result) = <<FALSE, None>>
            /\ frame.records = <<"record_failure">>
            /\ get_last_error(connection_cache) = frame.outcomes[i]
            /\ get_status(connection_cache) = "UNAVAILABLE"

\* A transient failure, a sleep, then a non-transient failure with retries
\* left.
C22_Witness ==
    \E frame \in RetryFrames :
        /\ frame.config.max_retries = 2
        /\ Len(frame.outcomes) = 2
        /\ TransientAttempts(frame) = {1}
        /\ FailedAttempts(frame) = {1, 2}
        /\ frame.waits = <<1>>
        /\ RetryReturned(frame)

\* The calls of linear_operation_with_fallback.
FallbackFrames ==
    {frames[o] : o \in {c \in DOMAIN frames :
                            frames[c].entry = "linear_operation_with_fallback"}}

\* The cache was UNAVAILABLE and no more than cache_duration had passed when
\* the call was made.
CalledWhileUnavailable(frame) ==
    LET cache == Value(frame.checked).cache
    IN  /\ cache.availability = "UNAVAILABLE"
        /\ ~IsNone(cache.cached_at)
        /\ Value(frame.checked).at - Value(cache.cached_at) <= cache.cache_duration

\* C23: a call of linear_operation_with_fallback made while the cache is
\* UNAVAILABLE and not expired invokes the operation function zero times,
\* returns fallback_result and leaves the cache as it was.
C23_UnavailableSkipsOperation ==
    \A frame \in FallbackFrames :
        CalledWhileUnavailable(frame) =>
            /\ frame.invocations = 0
            /\ frame.outcomes = <<>>
            /\ frame.records = <<>>
            /\ frame.returned = Some(FallbackResult)
            /\ connection_cache = Value(frame.checked).cache

\* The call follows one that failed and left the cache UNAVAILABLE.
C23_Witness ==
    \E frame \in FallbackFrames :
        /\ CalledWhileUnavailable(frame)
        /\ started = 2
        /\ frame.returned = Some(FallbackResult)
        /\ get_status(connection_cache) = "UNAVAILABLE"

\* An attempt ends, by a result, an exception or the timeout of wait_for,
\* and a sleep ends: the event loop runs both to their end.
SpecOperationsLive ==
    /\ SpecOperations
    /\ \A o \in Callers : WF_vars(AttemptSucceeds(o) \/ AttemptFails(o))
    /\ \A o \in Callers : WF_vars(SleepReturns(o))

\* What a call of linear_operation_with_fallback has returned is the result
\* of the attempt that succeeded, or fallback_result when none did; no
\* exception has left the call, and the attempts are within max_retries + 1.
FallbackReturnsNormally ==
    \A frame \in FallbackFrames :
        /\ frame.pc # "raised"
        /\ IsNone(frame.propagated)
        /\ frame.invocations <= frame.config.max_retries + 1
        /\ frame.pc = "returned" =>
               IF SucceededAttempts(frame) # {}
               THEN \E i \in SucceededAttempts(frame) :
                        frame.returned = Some(ResultOfInvocation(i))
               ELSE frame.returned = Some(FallbackResult)

\* C24: linear_operation_with_fallback propagates no exception of the
\* operation function, the timeout of an attempt included; it returns the
\* operation's result if an attempt succeeds and fallback_result otherwise;
\* and every call returns after finitely many attempts.
C24_NeverFailsTheBuild ==
    /\ []FallbackReturnsNormally
    /\ \A o \in Callers :
           (frames[o].entry = "linear_operation_with_fallback"
                /\ frames[o].pc \in {"running", "sleeping"})
               ~> (frames[o].pc = "returned")

\* Every attempt timed out and the fallback value came back.
C24_Witness ==
    \E frame \in FallbackFrames :
        /\ frame.pc = "returned"
        /\ frame.config.max_retries = 1
        /\ Len(frame.outcomes) = 2
        /\ \A i \in 1..2 : frame.outcomes[i] = Some(LinearErrorInfo("TIMEOUT", TRUE))
        /\ frame.returned = Some(FallbackResult)

(***************************************************************************)
(* Calls of the updater functions for one spec directory, sequential or    *)
(* overlapping, each Linear operation going through                        *)
(* linear_operation_with_fallback on the module's connection cache         *)
(***************************************************************************)

\* The most calls of updater functions.
MaxTaskCalls == 2

UpdaterCallers == {1, 2}

TransitionFunctions == {"linear_task_started", "linear_qa_started"}

\* linear_build_complete, for the functions that only add a comment.
CommentFunctions == {"linear_build_complete"}

NewStatusOf(fn) ==
    IF fn = "linear_task_started" THEN STATUS_IN_PROGRESS ELSE STATUS_IN_REVIEW

IssueId(n) ==
    <<"VAL-1", "VAL-2", "VAL-3", "VAL-4", "VAL-5", "VAL-6", "VAL-7", "VAL-8",
      "VAL-9", "VAL-10", "VAL-11", "VAL-12", "VAL-13">>[n]

NoError == [cls |-> "", message |-> ""]

\* What an invocation of _run_linear_agent_impl can do for the create prompt
\* when n issues exist: answer in the format asked for, answer without the
\* marker, fail before anything is created with an error that is retried or
\* with one that is not, or create the issue and run into the timeout of
\* wait_for; for the other prompts: answer, or fail with
\* an error that is retried or with one that is not.
AgentOutcomes(pc, n) ==
    IF pc = "await_create"
    THEN {[raises |-> NoError, creates |-> TRUE,
           response |-> <<"TASK_ID: " \o IssueId(n + 1), "TEAM_ID: ENG">>],
          [raises |-> NoError, creates |-> TRUE,
           response |-> <<"Created issue " \o IssueId(n + 1)>>],
          [raises |-> [cls |-> "Exception", message |-> "Network connection failed"],
           creates |-> FALSE, response |-> <<>>],
          [raises |-> [cls |-> "Exception", message |-> "Unauthorized: Invalid API key"],
           creates |-> FALSE, response |-> <<>>],
          [raises |-> [cls |-> "TimeoutError", message |-> ""],
           creates |-> TRUE, response |-> <<>>]}
    ELSE {[raises |-> NoError, creates |-> FALSE, response |-> <<"Done">>],
          [raises |-> [cls |-> "Exception", message |-> "Network connection failed"],
           creates |-> FALSE, response |-> <<>>],
          [raises |-> [cls |-> "Exception", message |-> "Unauthorized: Invalid API key"],
           creates |-> FALSE, response |-> <<>>]}

\* _run_linear_agent up to its first await: the cache check and the first
\* invocation.
begin_agent(cache, time) ==
    [cache |-> is_available(cache, time).cache,
     frame |-> linear_operation_with_fallback(
                   [IdleFrame EXCEPT !.entry = "linear_operation_with_fallback"],
                   AgentRetryConfig, is_available(cache, time).returned)]

\* What _run_linear_agent returned: Some(response) or None.
ResponseOf(frame) == Value(frame.returned)

\* States the spec directory can be in: no task yet, or a task at a status
\* the transition functions record.
StoredStates ==
    {None} \cup {Some(LinearTaskState(IssueId(1), status)) :
                    status \in {STATUS_TODO, STATUS_IN_PROGRESS, STATUS_IN_REVIEW}}

InitUpdater ==
    /\ ScopeIdle
    /\ HistoryIdle
    /\ DetectorIdle
    /\ TableIdle
    /\ ClassifyIdle
    /\ CacheIdle
    /\ frames = [c \in UpdaterCallers |-> IdleFrame]
    /\ started = 0
    /\ enabled \in BOOLEAN
    /\ state_file \in StoredStates
    /\ issues = IF IsNone(state_file) THEN 0 ELSE 1
    /\ saved = <<>>
    /\ updater_tasks = [c \in UpdaterCallers |-> IdleTask]
    /\ task_calls = 0

\* A step of caller c ends with its task, its frame, the cache and the state
\* file as given, after beginning as many Linear operations as said; the
\* frame goes with the call that returns.
Leaves(c, task, frame, cache, file, begun) ==
    /\ updater_tasks' = [updater_tasks EXCEPT ![c] = task]
    /\ frames' = [frames EXCEPT ![c] = IF task.pc = "returned" THEN IdleFrame ELSE frame]
    /\ started' = started + begun
    /\ connection_cache' = cache
    /\ state_file' = file
    /\ saved' = IF file = state_file THEN saved ELSE Append(saved, file)

\* The step that awaits the agent for a prompt, or goes on with the given
\* value when the operation is skipped.
Awaits(c, task, pc, skipped_value, cache, file) ==
    IF begin_agent(cache, now).frame.pc = "returned"
    THEN Leaves(c, task_return(task, skipped_value), begin_agent(cache, now).frame,
                begin_agent(cache, now).cache, file, 1)
    ELSE Leaves(c, [task EXCEPT !.pc = pc, !.agent_calls = @ + 1],
                begin_agent(cache, now).frame, begin_agent(cache, now).cache, file, 1)

CanCall(c) ==
    /\ updater_tasks[c].pc \in {"idle", "returned"}
    /\ task_calls < MaxTaskCalls

NewTask(fn) ==
    [IdleTask EXCEPT !.fn = fn, !.stored_at_call = state_file,
                     !.issues_at_call = issues]

CallCreateLinearTask(c) ==
    /\ CanCall(c)
    /\ task_calls' = task_calls + 1
    /\ LET task == NewTask("create_linear_task")
       IN  IF ~enabled
           THEN Leaves(c, task_return(task, None), frames[c], connection_cache, state_file, 0)
           ELSE IF get_status(connection_cache) = "UNAVAILABLE"
           THEN Leaves(c, task_return(task, None), frames[c], connection_cache, state_file, 0)
           ELSE IF HasTaskId(state_file)
           THEN Leaves(c, task_return(task, state_file), frames[c], connection_cache,
                       state_file, 0)
           ELSE Awaits(c, task, "await_create", None, connection_cache, state_file)
    /\ UNCHANGED <<enabled, issues, now, calls, detector_vars, table_vars, classify_vars, history_vars, scope_vars>>

\* add_linear_comment up to its await, for a task whose update succeeded or
\* that only adds a comment; returned is what the function returns when the
\* comment is not made.
BeginsComment(c, task, returned) ==
    IF ~enabled \/ ~HasTaskId(state_file)
    THEN Leaves(c, task_return(task, returned), frames[c], connection_cache, state_file, 0)
    ELSE Awaits(c, [task EXCEPT !.state = state_file], "await_comment", returned,
                connection_cache, state_file)

\* linear_task_started and linear_qa_started: update_linear_status up to its
\* await.
CallTransition(c) ==
    /\ CanCall(c)
    /\ task_calls' = task_calls + 1
    /\ \E fn \in TransitionFunctions :
         LET task == [NewTask(fn) EXCEPT !.new_status = NewStatusOf(fn),
                                         !.state = state_file]
         IN  IF ~enabled \/ ~HasTaskId(state_file)
             THEN Leaves(c, task_return(task, FALSE), frames[c], connection_cache,
                         state_file, 0)
             ELSE IF Value(state_file).status = NewStatusOf(fn)
             THEN BeginsComment(c, task, TRUE)
             ELSE Awaits(c, task, "await_status", FALSE, connection_cache, state_file)
    /\ UNCHANGED <<enabled, issues, now, calls, detector_vars, table_vars, classify_vars, history_vars, scope_vars>>

CallComment(c) ==
    /\ CanCall(c)
    /\ task_calls' = task_calls + 1
    /\ \E fn \in CommentFunctions : BeginsComment(c, NewTask(fn), FALSE)
    /\ UNCHANGED <<enabled, issues, now, calls, detector_vars, table_vars, classify_vars, history_vars, scope_vars>>

\* The cache after an attempt's end, which recorded the failure or not.
CacheAfter(cache, recorded, last_error_info, time) ==
    IF recorded THEN record_failure(cache, last_error_info, time) ELSE cache

\* The updater function after _run_linear_agent returned: create_linear_task
\* parses and saves, update_linear_status saves and the transition function
\* goes on to its comment, add_linear_comment returns.
AgentReturned(c, frame, cache) ==
    IF updater_tasks[c].pc = "await_create"
    THEN Leaves(c, create_continues(updater_tasks[c], ResponseOf(frame), state_file).task,
                frame, cache,
                create_continues(updater_tasks[c], ResponseOf(frame), state_file).file, 0)
    ELSE IF updater_tasks[c].pc = "await_status"
    THEN IF ~status_continues(updater_tasks[c], ResponseOf(frame), state_file).success
         THEN Leaves(c, task_return(updater_tasks[c], FALSE), frame, cache, state_file, 0)
         ELSE Awaits(c, updater_tasks[c], "await_comment", TRUE, cache,
                     status_continues(updater_tasks[c], ResponseOf(frame), state_file).file)
    ELSE Leaves(c, task_return(updater_tasks[c],
                               IF updater_tasks[c].fn \in TransitionFunctions THEN TRUE
                               ELSE ~IsNone(ResponseOf(frame))),
                frame, cache, state_file, 0)

\* An attempt's end left the operation sleeping before its next attempt, or
\* returned to the updater function.
AttemptEnded(c, frame, cache) ==
    IF frame.pc = "returned"
    THEN AgentReturned(c, frame, cache)
    ELSE /\ frames' = [frames EXCEPT ![c] = frame]
         /\ connection_cache' = cache
         /\ UNCHANGED <<updater_tasks, started, state_file, saved>>

\* An invocation of the agent ends, with an answer or an exception.
AgentAttemptEnds(c) ==
    /\ frames[c].pc = "running"
    /\ updater_tasks[c].pc \in {"await_create", "await_status", "await_comment"}
    /\ \E outcome \in AgentOutcomes(updater_tasks[c].pc, issues) :
         /\ issues' = IF outcome.creates THEN issues + 1 ELSE issues
         /\ IF outcome.raises = NoError
            THEN AttemptEnded(c, attempt_succeeded(frames[c], Some(outcome.response)),
                              record_success(connection_cache))
            ELSE AttemptEnded(c,
                     attempt_raised(frames[c], outcome.raises,
                                    ClassifiedErrors[outcome.raises]).frame,
                     CacheAfter(connection_cache,
                                attempt_raised(frames[c], outcome.raises,
                                               ClassifiedErrors[outcome.raises]).recorded,
                                ClassifiedErrors[outcome.raises], now))
    /\ UNCHANGED <<enabled, task_calls, now, calls, detector_vars, table_vars,
                   classify_vars, history_vars, scope_vars>>

\* asyncio.sleep returns and the agent is invoked again.
AgentSleepReturns(c) ==
    /\ frames[c].pc = "sleeping"
    /\ updater_tasks[c].pc \in {"await_create", "await_status", "await_comment"}
    /\ frames' = [frames EXCEPT ![c] = sleep_over(frames[c])]
    /\ updater_tasks' = [updater_tasks EXCEPT ![c].agent_calls = @ + 1]
    /\ UNCHANGED <<started, enabled, state_file, issues, saved, task_calls,
                   cache_vars, detector_vars, table_vars, classify_vars, history_vars, scope_vars>>

NextUpdater ==
    \E c \in UpdaterCallers :
        \/ CallCreateLinearTask(c)
        \/ CallTransition(c)
        \/ CallComment(c)
        \/ AgentAttemptEnds(c)
        \/ AgentSleepReturns(c)

SpecUpdater == InitUpdater /\ [][NextUpdater]_vars

\* The place of a status in the flow Todo -> In Progress -> In Review.
StatusRank(status) ==
    IF status = STATUS_TODO THEN 1 ELSE IF status = STATUS_IN_PROGRESS THEN 2 ELSE 3

\* C25: the status recorded in the state file only advances along
\* Todo -> In Progress -> In Review: whatever updater functions are called,
\* in any order and with any outcome of their Linear operations, no step
\* replaces the recorded status by an earlier one.
C25_StatusOnlyAdvances ==
    [][(~IsNone(state_file) /\ ~IsNone(state_file'))
          => StatusRank(Value(state_file').status) >= StatusRank(Value(state_file).status)]_vars

\* The calls of create_linear_task made with Linear enabled.
CreateCalls ==
    {c \in DOMAIN updater_tasks : enabled /\ updater_tasks[c].fn = "create_linear_task"}

\* C26: at most one Linear issue is ever created for the spec directory, and
\* a call of create_linear_task made once an issue exists never invokes the
\* agent and returns the stored task.
C26_OneTaskPerSpec ==
    /\ issues <= 1
    /\ \A c \in CreateCalls :
         updater_tasks[c].issues_at_call > 0 =>
            /\ updater_tasks[c].agent_calls = 0
            /\ updater_tasks[c].pc = "returned" =>
                  /\ ~IsNone(Value(updater_tasks[c].returned))
                  /\ Value(updater_tasks[c].returned) = updater_tasks[c].stored_at_call

(***************************************************************************)
(* Calls of get_merge_history on the histories _record_merge_completion    *)
(* leaves, and on a file that is missing, unreadable or not JSON           *)
(***************************************************************************)

\* The most records of a history.
MaxMerges == 2

Timestamps == {"2024-01-15T10:30:00.123456", "2024-02-01T08:00:00"}

\* The hash of the merge commit: key absent, null (the git lookup failed), a
\* short hash, a full hash.
MergeCommits ==
    {None, Null, Some(Some("a1b2c3d")),
     Some(Some("0123456789abcdef0123456789abcdef01234567"))}

ConflictingFileLists ==
    {<<>>, <<"file1.py">>,
     <<"f1.py", "f2.py", "f3.py", "f4.py", "f5.py", "f6.py", "f7.py", "f8.py",
       "f9.py", "f10.py", "f11.py">>}

StatsDicts ==
    {EmptyDict,
     <<[key |-> "total_files", value |-> 2], [key |-> "conflicts_resolved", value |-> 1],
       [key |-> "ai_assisted", value |-> 1], [key |-> "auto_merged", value |-> 1]>>}

MergeRecords ==
    [timestamp : Timestamps, merge_commit : MergeCommits,
     files_merged : {<<"file1.py", "file2.py">>},
     conflicting_files : ConflictingFileLists, stats : StatsDicts]

RECURSIVE SeqsUpTo(_, _)
SeqsUpTo(S, n) ==
    IF n = 0 THEN {<<>>}
    ELSE SeqsUpTo(S, n - 1)
         \cup {Append(q, x) : q \in {r \in SeqsUpTo(S, n - 1) : Len(r) = n - 1}, x \in S}

HistoryFiles ==
    {[kind |-> kind, merges |-> <<>>] : kind \in {"missing", "unreadable", "corrupt"}}
    \cup {[kind |-> "json", merges |-> merges] : merges \in SeqsUpTo(MergeRecords, MaxMerges)}

InitHistory ==
    /\ ScopeIdle
    /\ DetectorIdle
    /\ TableIdle
    /\ CacheIdle
    /\ ClassifyIdle
    /\ OperationIdle
    /\ UpdaterIdle
    /\ merge_history_file \in HistoryFiles
    /\ gmh_outcome = None

CallGetMergeHistory ==
    /\ IsNone(gmh_outcome)
    /\ gmh_outcome' = Some(get_merge_history(merge_history_file))
    /\ UNCHANGED <<merge_history_file, detector_vars, table_vars, cache_vars,
                   classify_vars, operation_vars, updater_vars, scope_vars>>

NextHistory == CallGetMergeHistory

SpecHistory == InitHistory /\ [][NextHistory]_vars

\* The histories the claim is about: no file, no merges, or a last record
\* whose merge_commit is a hash or null.
RecordedHistory ==
    \/ merge_history_file.kind = "missing"
    \/ /\ merge_history_file.kind = "json"
       /\ \/ merge_history_file.merges = <<>>
          \/ ~IsNone(merge_history_file.merges[Len(merge_history_file.merges)].merge_commit)

LastMerge == merge_history_file.merges[Len(merge_history_file.merges)]

\* C28: on every recorded history the tool returns a text and raises
\* nothing; when the history has merges, the text gives their number as the
\* total and the timestamp of the final record as the last merge.
C28_HandlesEveryHistory ==
    (~IsNone(gmh_outcome) /\ RecordedHistory) =>
        /\ IsNone(Value(gmh_outcome).raised)
        /\ ~IsNone(Value(gmh_outcome).text)
        /\ (merge_history_file.kind = "json" /\ merge_history_file.merges # <<>>) =>
              /\ "**Total merges:** " \o ToString(Len(merge_history_file.merges))
                    = Value(Value(gmh_outcome).text)[3]
              /\ "**Timestamp:** " \o LastMerge.timestamp = Value(Value(gmh_outcome).text)[7]

(***************************************************************************)
(* C29  Every function_rename conflict is about a call to the old name:    *)
(* each conflict detect_function_rename_conflicts emits names a task that  *)
(* recorded a rename (target the new name, location function:<old name>)   *)
(* and a consuming task whose after-text calls the old name of that        *)
(* rename; a task calling the function by its new name only is not flagged.*)
(***************************************************************************)
C29_ConflictIsAboutOldName ==
    called = "detect_function_rename_conflicts" =>
        \A i \in Found(LAMBDA c : c.conflict_type = "function_rename") :
            \E it \in Recorded :
                /\ it.change.change_type = "RENAME_FUNCTION"
                /\ it.task_id = result[i].tasks_involved[1]
                /\ AfterCalls(result[i].tasks_involved[2], RecordedOldName(it.change))

\* Task A recorded, without snippets, the only rename whose target is N, and
\* the after-text of a different task B parses and calls N.
C30_Case(it, b) ==
    /\ it.change.change_type = "RENAME_FUNCTION"
    /\ ~Truthy(it.change.content_before) /\ ~Truthy(it.change.content_after)
    /\ \A other \in Recorded :
          (other.change.change_type = "RENAME_FUNCTION"
             /\ other.change.target = it.change.target) => other = it
    /\ b # it.task_id
    /\ AfterParses(b)
    /\ AfterCalls(b, it.change.target)

(***************************************************************************)
(* C30  The rename detector collects a rename record whether or not it     *)
(* carries snippets: a RENAME_FUNCTION record of task A with target N and  *)
(* no snippets, with a different task B whose after-text calls N, yields a *)
(* function_rename conflict naming A and B.                                *)
(***************************************************************************)
C30_RenameWithoutSnippetsCollected ==
    called = "detect_function_rename_conflicts" =>
        \A it \in Recorded : \A b \in ContentTasks :
            C30_Case(it, b) =>
                \E i \in Found(LAMBDA c : c.conflict_type = "function_rename") :
                    result[i].tasks_involved = <<it.task_id, b>>

(***************************************************************************)
(* C31  Return-type transitions are examined for each task: for every task *)
(* T of file_contents whose two texts parse and every function whose       *)
(* return annotation goes, in T's pair, from one without None to one with  *)
(* None, detect_type_change_conflicts emits a type_change conflict naming  *)
(* T for that function, whatever the pairs of the other tasks (some task   *)
(* has an analysis, so that the file path is known).                       *)
(***************************************************************************)
C31_EachTaskExamined ==
    (called = "detect_type_change_conflicts" /\ Len(task_analyses) > 0) =>
        \A t \in ContentTasks : \A func_name \in FunctionNames :
            \A old \in Annotations \ NoneAnnotations : \A new \in NoneAnnotations :
                ReturnChanges(t, func_name, old, new) =>
                    \E i \in Found(LAMBDA c : c.conflict_type = "type_change") :
                        /\ result[i].tasks_involved = <<t>>
                        /\ result[i].location = "function:" \o func_name

(***************************************************************************)
(* Walks of PythonSymbolExtractor over nested function and class           *)
(* definitions                                                             *)
(***************************************************************************)

\* The deepest nesting of definitions in a tree.
MaxDepth == 3

DefinitionKinds == {"FunctionDef", "AsyncFunctionDef", "ClassDef"}

\* name = 1
AssignOf(name) == Assign(<<Name(name, Store, 1)>>, Constant("1", 1), 1)

\* def name(): body / async def name(): body / class name: body
DefinitionOf(kind, name, body) ==
    IF kind = "FunctionDef" THEN FunctionDef(name, <<>>, body, None, 1)
    ELSE IF kind = "AsyncFunctionDef" THEN AsyncFunctionDef(name, <<>>, body, None, 1)
    ELSE ClassDef(name, <<>>, body, 1)

\* The statements of nesting depth d at most, every name the path to its
\* statement: an assignment, or a definition whose body is a statement
\* followed or not by an assignment.
RECURSIVE Statements(_, _)
Statements(d, name) ==
    {AssignOf(name)}
    \cup (IF d = 0 THEN {}
          ELSE {DefinitionOf(kind, name, <<s>> \o tail) :
                    kind \in DefinitionKinds,
                    s \in Statements(d - 1, name \o "a"),
                    tail \in {<<>>, <<AssignOf(name \o "b")>>}})

\* A statement, followed or not by a top-level assignment or definition.
WalkedTrees ==
    {Module(<<s>> \o tail) :
        s \in Statements(MaxDepth, "a"),
        tail \in {<<>>, <<AssignOf("b")>>,
                  <<DefinitionOf("FunctionDef", "b", <<Pass(1)>>)>>,
                  <<DefinitionOf("ClassDef", "b", <<Pass(1)>>)>>}}

InitScope ==
    /\ DetectorIdle
    /\ TableIdle
    /\ CacheIdle
    /\ ClassifyIdle
    /\ OperationIdle
    /\ UpdaterIdle
    /\ HistoryIdle
    /\ walk_tree \in WalkedTrees
    /\ walk_state = None

\* extractor = PythonSymbolExtractor(); extractor.visit(tree)
WalkTree ==
    /\ IsNone(walk_state)
    /\ walk_state' = Some(visit(PythonSymbolExtractor, walk_tree))
    /\ UNCHANGED <<walk_tree, detector_vars, table_vars, cache_vars, classify_vars, operation_vars, updater_vars, history_vars>>

NextScope == WalkTree

SpecScope == InitScope /\ [][NextScope]_vars

\* The scope a definition gives its body.
ScopeOfBody(node) ==
    (IF node.type = "ClassDef" THEN "class:" ELSE "function:") \o node.name

\* The names the statements define, each with the scope of the innermost
\* definition enclosing it (scope for the statements themselves), read off
\* the tree.
RECURSIVE EnclosingScopes(_, _)
EnclosingScopes(nodes, scope) ==
    UNION {IF nodes[i].type = "Assign" THEN {<<nodes[i].targets[1].id, scope>>}
           ELSE IF nodes[i].type \in DefinitionKinds
           THEN {<<nodes[i].name, scope>>}
                \cup EnclosingScopes(nodes[i].body, ScopeOfBody(nodes[i]))
           ELSE {} : i \in 1..Len(nodes)}

RECURSIVE Depth(_)
Depth(nodes) ==
    IF \A i \in 1..Len(nodes) : nodes[i].type \notin DefinitionKinds THEN 0
    ELSE 1 + Depth(nodes[CHOOSE i \in 1..Len(nodes) : nodes[i].type \in DefinitionKinds].body)

(***************************************************************************)
(* C32  Scope tracking is a properly nested stack: after the walk of any   *)
(* nesting of functions and classes the current scope is 'module' again,   *)
(* and every name defined is registered with the scope of the innermost    *)
(* definition enclosing it: 'module' for the top-level statements, also    *)
(* for one that follows a nested block, function:<name> or class:<name>    *)
(* inside a body.                                                          *)
(***************************************************************************)
C32_ScopesProperlyNested ==
    ~IsNone(walk_state) =>
        /\ Value(walk_state).current_scope = "module"
        /\ Len(Value(walk_state).symbol_table.definitions)
              = Cardinality(EnclosingScopes(walk_tree.body, "module"))
        /\ \A d \in EnclosingScopes(walk_tree.body, "module") :
              /\ DictHas(Value(walk_state).symbol_table.definitions, d[1])
              /\ DictGet(Value(walk_state).symbol_table.definitions, d[1])[3] = d[2]

\* A class inside a function inside a class, an assignment after the inner
\* block, and a top-level definition after the whole block, walked.
C32_Witness ==
    /\ ~IsNone(walk_state)
    /\ Len(walk_tree.body) = 2
    /\ walk_tree.body[2].type = "FunctionDef"
    /\ Depth(walk_tree.body) = 3
    /\ walk_tree.body[1].type = "ClassDef"
    /\ Len(walk_tree.body[1].body) = 2
    /\ <<"ab", "class:a">> \in EnclosingScopes(walk_tree.body, "module")
    /\ DictGet(Value(walk_state).symbol_table.definitions, "b")[3] = "module"

(***************************************************************************)
(* Calls of retry_with_backoff under configurations of every shape, for    *)
(* the waits between attempts                                              *)
(***************************************************************************)

\* The most retries of a configuration.
MaxRetries == 3

\* RetryConfig(max_retries, initial_delay, max_delay, exponential_base), the
\* delays in seconds, initial_delay below, at and above max_delay.
BackoffConfigs ==
    [max_retries : 0..MaxRetries, initial_delay : {1, 2, 5}, max_delay : {2, 4, 30},
     exponential_base : {1, 2, 3}]

InitBackoff ==
    /\ DetectorIdle
    /\ TableIdle
    /\ ClassifyIdle
    /\ CacheIdle
    /\ UpdaterIdle
    /\ HistoryIdle
    /\ ScopeIdle
    /\ frames = [o \in Callers |-> IdleFrame]
    /\ started = 0

CallWithConfig(o) ==
    /\ frames[o].pc = "idle"
    /\ \E config \in BackoffConfigs :
         frames' = [frames EXCEPT ![o] =
             retry_with_backoff(NewFrame("retry_with_backoff"), config)]
    /\ started' = started + 1
    /\ UNCHANGED <<cache_vars, detector_vars, table_vars, classify_vars, updater_vars, history_vars, scope_vars>>

NextBackoff ==
    \/ \E o \in Callers : CallWithConfig(o)
    \/ \E o \in Callers : AttemptSucceeds(o)
    \/ \E o \in Callers : AttemptFails(o)
    \/ \E o \in Callers : SleepReturns(o)

SpecBackoff == InitBackoff /\ [][NextBackoff]_vars

RECURSIVE Power(_, _)
Power(b, n) == IF n = 0 THEN 1 ELSE b * Power(b, n - 1)

\* min(initial_delay * exponential_base^(k-1), max_delay)
CappedDelay(config, k) ==
    Min(config.initial_delay * Power(config.exponential_base, k - 1), config.max_delay)

\* The waits of a call so far, the one in progress included.
WaitsOf(frame) ==
    IF frame.pc = "sleeping" THEN Append(frame.waits, frame.delay) ELSE frame.waits

(***************************************************************************)
(* C33  Exponential backoff is capped: the wait before the k-th retry of a *)
(* call of retry_with_backoff is min(initial_delay * exponential_base ^    *)
(* (k-1), max_delay), so none exceeds max_delay, for any RetryConfig;      *)
(* there is one wait between two consecutive attempts and none after the   *)
(* final attempt or after a success.                                       *)
(***************************************************************************)
C33_BackoffCapped ==
    \A o \in DOMAIN frames :
        frames[o].entry = "retry_with_backoff" =>
            /\ \A k \in 1..Len(WaitsOf(frames[o])) :
                  /\ WaitsOf(frames[o])[k] = CappedDelay(frames[o].config, k)
                  /\ WaitsOf(frames[o])[k] <= frames[o].config.max_delay
            /\ frames[o].pc \in {"running", "returned"} =>
                  Len(frames[o].waits) = frames[o].invocations - 1
            /\ frames[o].pc = "sleeping" =>
                  Len(frames[o].waits) = frames[o].invocations - 1

(***************************************************************************)
(* Calls of the updater functions one after the other with time passing,   *)
(* on a cache whose unavailable status lasts a short time                  *)
(***************************************************************************)

SequentialCallers == {1}

InitExpiry ==
    /\ DetectorIdle
    /\ TableIdle
    /\ ClassifyIdle
    /\ HistoryIdle
    /\ ScopeIdle
    /\ \E cache_duration \in CacheDurations :
         connection_cache = LinearConnectionCache(3, cache_duration)
    /\ now = 0
    /\ calls = <<>>
    /\ frames = [c \in SequentialCallers |-> IdleFrame]
    /\ started = 0
    /\ enabled \in BOOLEAN
    /\ state_file \in StoredStates
    /\ issues = IF IsNone(state_file) THEN 0 ELSE 1
    /\ saved = <<>>
    /\ updater_tasks = [c \in SequentialCallers |-> IdleTask]
    /\ task_calls = 0

NextExpiry ==
    \/ Tick
    \/ \E c \in SequentialCallers :
        \/ CallCreateLinearTask(c)
        \/ CallTransition(c)
        \/ CallComment(c)
        \/ AgentAttemptEnds(c)
        \/ AgentSleepReturns(c)

SpecExpiry == InitExpiry /\ [][NextExpiry]_vars

\* More than cache_duration has elapsed since the cache was marked
\* UNAVAILABLE.
UnavailableExpired ==
    /\ connection_cache.availability = "UNAVAILABLE"
    /\ ~IsNone(connection_cache.cached_at)
    /\ now - Value(connection_cache.cached_at) > connection_cache.cache_duration

\* The step is a call of an updater function that has a Linear operation to
\* make: the key is set, and create_linear_task finds no stored task, the
\* transition function a stored status other than its own, the comment
\* function a stored task.
LinearCall(c) ==
    /\ task_calls' = task_calls + 1
    /\ enabled
    /\ updater_tasks'[c].fn = "create_linear_task" => ~HasTaskId(state_file)
    /\ updater_tasks'[c].fn # "create_linear_task" => HasTaskId(state_file)
    /\ updater_tasks'[c].fn \in TransitionFunctions =>
          Value(state_file).status # updater_tasks'[c].new_status

(***************************************************************************)
(* C34  Expiry of the unavailable status allows a retry at every entry     *)
(* point: a Linear call of any kind made once more than cache_duration has *)
(* elapsed since the cache was marked UNAVAILABLE invokes the agent; in    *)
(* particular create_linear_task with the key set and no stored task.      *)
(***************************************************************************)
C34_ExpiryAllowsRetry ==
    [][\A c \in DOMAIN updater_tasks :
          (LinearCall(c) /\ UnavailableExpired) => updater_tasks'[c].agent_calls >= 1]_vars

(***************************************************************************)
(* Several calls of linear_operation_with_fallback in flight on the        *)
(* module's connection cache: the event loop interleaves them at their     *)
(* awaits                                                                  *)
(***************************************************************************)

ConcurrentCallers == {1, 2}

InitConcurrent ==
    /\ ScopeIdle
    /\ HistoryIdle
    /\ UpdaterIdle
    /\ DetectorIdle
    /\ TableIdle
    /\ ClassifyIdle
    /\ \E failure_threshold \in FailureThresholds, cache_duration \in CacheDurations :
         connection_cache = LinearConnectionCache(failure_threshold, cache_duration)
    /\ now = 0
    /\ calls = <<>>
    /\ frames = [o \in ConcurrentCallers |-> IdleFrame]
    /\ started = 0

NextConcurrent ==
    \/ \E o \in ConcurrentCallers : CallLinearOperationWithFallback(o)
    \/ \E o \in ConcurrentCallers : AttemptSucceeds(o)
    \/ \E o \in ConcurrentCallers : AttemptFails(o)
    \/ \E o \in ConcurrentCallers : SleepReturns(o)
    \/ Tick

SpecConcurrent == InitConcurrent /\ [][NextConcurrent]_vars

\* The cache is marked UNAVAILABLE and the mark has not expired.
KnownUnavailable ==
    /\ get_status(connection_cache) = "UNAVAILABLE"
    /\ ~IsNone(connection_cache.cached_at)
    /\ now - Value(connection_cache.cached_at) <= connection_cache.cache_duration

\* C35: while the cache is marked UNAVAILABLE and the mark has not expired,
\* no step starts an invocation of an operation function, neither the first
\* attempt of a call nor a retry of a call in flight.
C35_NoInvocationWhileUnavailable ==
    [][KnownUnavailable =>
          \A o \in DOMAIN frames : frames'[o].invocations <= frames[o].invocations]_vars

\* Caller c calls linear_task_started or linear_qa_started in this step, and
\* with it update_linear_status; the calls are made one after the other.
UpdateCalled(c) ==
    /\ updater_tasks[c].pc \in {"idle", "returned"}
    /\ task_calls' = task_calls + 1
    /\ updater_tasks'[c].fn \in TransitionFunctions

\* update_linear_status of caller c awaits the agent and the agent call ends
\* in this step: with a success, which the cache records, or with the
\* failure it records.
UpdateAgentEnded(c) ==
    /\ updater_tasks[c].pc = "await_status"
    /\ updater_tasks'[c].pc # "await_status"

UpdateAgentSucceeded(c) ==
    UpdateAgentEnded(c) /\ connection_cache'.consecutive_failures = 0

UpdateAgentFailed(c) ==
    UpdateAgentEnded(c) /\ connection_cache'.consecutive_failures > 0

\* update_linear_status returned True: the transition function goes on to
\* its comment, or has returned True when the comment was skipped.
UpdateReturnedTrue(c) ==
    \/ updater_tasks'[c].pc = "await_comment"
    \/ updater_tasks'[c].pc = "returned" /\ updater_tasks'[c].returned = Some(TRUE)

UpdateReturnedFalse(c) ==
    updater_tasks'[c].pc = "returned" /\ updater_tasks'[c].returned = Some(FALSE)

\* The status prompt is not given to the agent.
NoStatusPrompt(c) == updater_tasks'[c].pc # "await_status"

FileKept == state_file' = state_file /\ saved' = saved

\* C36: update_linear_status changes the stored state only on success.
\* Disabled or no task stored: False, nothing invoked.  Stored status equal
\* to new_status: True, no agent call for the status, state file not
\* rewritten.  Agent call skipped or failed: False, stored status unchanged.
\* Agent call succeeded: the stored status is new_status, the other stored
\* fields are as they were, True.
C36_StoredOnlyOnSuccess ==
    [][\A c \in DOMAIN updater_tasks :
          /\ (UpdateCalled(c) /\ (~enabled \/ ~HasTaskId(state_file))) =>
                /\ UpdateReturnedFalse(c)
                /\ updater_tasks'[c].agent_calls = 0
                /\ started' = started
                /\ FileKept
                /\ connection_cache' = connection_cache
          /\ (UpdateCalled(c) /\ enabled /\ HasTaskId(state_file)
                /\ Value(state_file).status = updater_tasks'[c].new_status) =>
                /\ UpdateReturnedTrue(c)
                /\ NoStatusPrompt(c)
                /\ FileKept
          /\ (UpdateCalled(c) /\ enabled /\ HasTaskId(state_file)
                /\ Value(state_file).status # updater_tasks'[c].new_status
                /\ ~is_available(connection_cache, now).returned) =>
                /\ UpdateReturnedFalse(c)
                /\ updater_tasks'[c].agent_calls = 0
                /\ FileKept
          /\ UpdateAgentFailed(c) =>
                /\ UpdateReturnedFalse(c)
                /\ FileKept
          /\ UpdateAgentSucceeded(c) =>
                /\ UpdateReturnedTrue(c)
                /\ state_file' = Some([Value(state_file) EXCEPT
                                          !.status = updater_tasks[c].new_status])
                /\ saved' = Append(saved, state_file')]_vars

\* A call of linear_task_started on a task at Todo has moved the stored
\* status to In Progress after a retried agent call, and returned True.
C36_Witness ==
    \E c \in DOMAIN updater_tasks :
        /\ updater_tasks[c].fn = "linear_task_started"
        /\ updater_tasks[c].pc = "returned"
        /\ updater_tasks[c].returned = Some(TRUE)
        /\ updater_tasks[c].agent_calls >= 3
        /\ updater_tasks[c].stored_at_call = Some(LinearTaskState(IssueId(1), STATUS_TODO))
        /\ state_file = Some(LinearTaskState(IssueId(1), STATUS_IN_PROGRESS))
        /\ saved = <<state_file>>

\* The conflicts a call of the rename or of the import-removal detector
\* returned.
NamedConflicts ==
    IF called \in {"detect_function_rename_conflicts", "detect_import_removal_conflicts"}
    THEN 1..Len(result)
    ELSE {}

\* The task the detector's dict holds for the name a conflict is about.
SourceTaskOf(conflict) ==
    IF conflict.conflict_type = "function_rename"
    THEN RenamingTask(LocationName(conflict.location, "function:"))
    ELSE RemovingTask(LocationName(conflict.location, "import:"))

\* C37: the result holds at most one function_rename conflict for a name and
\* a consuming task and at most one import_removal conflict for a symbol and
\* a consuming task, also when several tasks recorded a change of the name;
\* the source task a conflict names is the last task, in the iteration order
\* of task_analyses, that recorded the change.
C37_OneConflictPerNameAndConsumer ==
    /\ \A i \in NamedConflicts : \A j \in NamedConflicts :
          (/\ result[i].conflict_type = result[j].conflict_type
           /\ result[i].location = result[j].location
           /\ CheckedTask(result[i]) = CheckedTask(result[j])) => i = j
    /\ \A i \in NamedConflicts :
          result[i].tasks_involved[1] = SourceTaskOf(result[i])

\* Two tasks recorded a change of the same name, the first of them consumes
\* the name, and the one conflict about it names the second as its source.
C37_Witness ==
    \E i \in NamedConflicts :
        \E a \in Recorded : \E b \in Recorded :
            /\ a.task_id # b.task_id
            /\ a.change.change_type = b.change.change_type
            /\ a.change.target = b.change.target
            /\ a.change.target
                  \in {LocationName(result[i].location, "function:"),
                       LocationName(result[i].location, "import:")}
            /\ CheckedTask(result[i]) = a.task_id
            /\ result[i].tasks_involved[1] = b.task_id

(***************************************************************************)
(* The detectors on tasks that change the return annotation of get_user,   *)
(* add one or take it away                                                 *)
(***************************************************************************)

AnnotationPairs ==
    {<<"user", "user_or_none">>,
     <<"user_or_none", "user">>,
     <<"user_unannotated", "user_or_none">>,
     <<"user_or_none", "user_unannotated">>,
     <<"user_unannotated", "user">>,
     <<"user", "user">>}

InitAnnotations ==
    /\ ScopeIdle
    /\ HistoryIdle
    /\ UpdaterIdle
    /\ OperationIdle
    /\ ClassifyIdle
    /\ \E order \in AnalysisOrders, file_path \in FilePaths :
         \E chs \in [1..Len(order) -> ChangeLists] :
            /\ TotalLen(chs) <= MaxChanges
            /\ task_analyses =
                 [i \in 1..Len(order) |->
                    [key |-> order[i],
                     value |-> [file_path |-> file_path, changes |-> chs[i]]]]
    /\ \E order \in TaskOrders :
         \E pairs \in [1..Len(order) -> AnnotationPairs] :
            file_contents = [i \in 1..Len(order) |-> [key |-> order[i], value |-> pairs[i]]]
    /\ called = "none"
    /\ result = <<>>
    /\ built = <<>>
    /\ TableIdle
    /\ CacheIdle

SpecAnnotations == InitAnnotations /\ [][Next]_vars

\* The definitions of func_name at the top level of a text.
DeclarationsOf(content, func_name) ==
    LET body == SourceTexts[content].tree.body
    IN  {body[i] : i \in {k \in 1..Len(body) :
                              /\ body[k].type \in {"FunctionDef", "AsyncFunctionDef"}
                              /\ body[k].name = func_name}}

\* The text declares func_name without a return annotation.
Unannotated(content, func_name) ==
    /\ DeclarationsOf(content, func_name) # {}
    /\ \A node \in DeclarationsOf(content, func_name) : IsNone(node.returns)

\* The text declares func_name with a return annotation that names None.
AnnotatedWithNone(content, func_name) ==
    /\ DeclarationsOf(content, func_name) # {}
    /\ \A node \in DeclarationsOf(content, func_name) :
          /\ ~IsNone(node.returns)
          /\ StrContains(unparse(Value(node.returns)), "None")

\* Both texts of the task parse and declare func_name, one of them with a
\* return annotation that names None and the other with none.
AnnotatedInOneTextOnly(t, func_name) ==
    /\ BeforeParses(t) /\ AfterParses(t)
    /\ \/ /\ Unannotated(PairOf(t)[1], func_name)
          /\ AnnotatedWithNone(PairOf(t)[2], func_name)
       \/ /\ AnnotatedWithNone(PairOf(t)[1], func_name)
          /\ Unannotated(PairOf(t)[2], func_name)

\* C38: a task whose pair gives a function a return annotation naming None
\* where it had none, or takes such an annotation away, gets no type_change
\* conflict for that function.
C38_UnannotatedSideNoConflict ==
    (called = "detect_type_change_conflicts" /\ HasTasks) =>
        \A t \in ContentTasks : \A func_name \in FunctionNames :
            AnnotatedInOneTextOnly(t, func_name) =>
                Found(LAMBDA c : /\ c.location = "function:" \o func_name
                                 /\ c.tasks_involved = <<t>>) = {}

\* One task annotates get_user with User | None where there was no
\* annotation, the other takes that annotation away, and nothing is
\* reported.
C38_Witness ==
    /\ called = "detect_type_change_conflicts"
    /\ HasTasks
    /\ \E t \in ContentTasks : \E u \in ContentTasks :
        /\ PairOf(t) = <<"user_unannotated", "user_or_none">>
        /\ PairOf(u) = <<"user_or_none", "user_unannotated">>
        /\ AnnotatedInOneTextOnly(t, "get_user")
        /\ AnnotatedInOneTextOnly(u, "get_user")
    /\ result = <<>>


\* C39: whatever calls of record_success, record_failure and is_available
\* were made, with time passing between them, on a cache with a failure
\* threshold of 1 or more: the status is AVAILABLE exactly when the count of
\* consecutive failures is 0, and exactly when no last error is stored; the
\* status is UNAVAILABLE only with a time stamp; and it is never DISABLED.
C39_CacheInvariant ==
    connection_cache.failure_threshold >= 1 =>
        /\ get_status(connection_cache) = "AVAILABLE"
              <=> connection_cache.consecutive_failures = 0
        /\ get_status(connection_cache) = "AVAILABLE"
              <=> IsNone(get_last_error(connection_cache))
        /\ get_status(connection_cache) = "UNAVAILABLE"
              => ~IsNone(connection_cache.cached_at)
        /\ get_status(connection_cache) # "DISABLED"
        /\ get_status(connection_cache) \in {"AVAILABLE", "DEGRADED", "UNAVAILABLE"}

\* The mark of a failure has expired and is_available has put the cache back
\* to DEGRADED, with the count at 1 and the last error kept.
C39_Witness ==
    /\ Len(calls) >= 2
    /\ calls[Len(calls) - 1].op = "record_failure"
    /\ LastCall.op = "is_available"
    /\ LastCall.returned
    /\ get_status(connection_cache) = "DEGRADED"
    /\ connection_cache.consecutive_failures = 1
    /\ ~IsNone(connection_cache.cached_at)
    /\ now - Value(connection_cache.cached_at) > connection_cache.cache_duration
    /\ ~IsNone(get_last_error(connection_cache))


\* An attempt of call o ends in this step.
AttemptOver(o) ==
    /\ frames[o].pc = "running"
    /\ Len(frames'[o].outcomes) = Len(frames[o].outcomes) + 1

\* What the attempt that ended raised, None when it returned.
AttemptError(o) == frames'[o].outcomes[Len(frames'[o].outcomes)]

\* The cache is updated once, when the call gives its result: by
\* record_success with the attempt that succeeds, by record_failure with the
\* error of the attempt after which the call gives up, and by nothing at an
\* attempt that is retried or while the call sleeps.
OneRecordPerCall ==
    \A o \in DOMAIN frames :
        /\ (AttemptOver(o) /\ IsNone(AttemptError(o))) =>
              /\ frames'[o].pc = "returned"
              /\ frames'[o].records = <<"record_success">>
              /\ connection_cache' = record_success(connection_cache)
        /\ (AttemptOver(o) /\ ~IsNone(AttemptError(o)) /\ frames'[o].pc = "sleeping") =>
              /\ frames'[o].records = <<>>
              /\ connection_cache' = connection_cache
        /\ (AttemptOver(o) /\ ~IsNone(AttemptError(o)) /\ frames'[o].pc # "sleeping") =>
              /\ frames'[o].pc = "returned"
              /\ frames'[o].records = <<"record_failure">>
              /\ connection_cache' =
                    record_failure(connection_cache, Value(AttemptError(o)), now)
              /\ connection_cache'.consecutive_failures
                    = connection_cache.consecutive_failures + 1
        /\ frames[o].pc = "sleeping" => connection_cache' = connection_cache

\* The count of consecutive failures when the first attempt of a call of
\* linear_operation_with_fallback began: the one is_available left.
FailuresAtCall(frame) ==
    is_available(Value(frame.checked).cache, Value(frame.checked).at)
        .cache.consecutive_failures

\* A call that failed on all its max_retries + 1 attempts has raised the
\* count by 1.
FailedCallCountsOnce ==
    \A frame \in FallbackFrames :
        (/\ frame.pc = "returned"
         /\ frame.invocations = frame.config.max_retries + 1
         /\ FailedAttempts(frame) = 1..(frame.config.max_retries + 1)) =>
            connection_cache.consecutive_failures = FailuresAtCall(frame) + 1

\* C40: a call of retry_with_backoff updates the connection cache at most
\* once, by record_success when an attempt succeeds or by one record_failure
\* with the last error when it gives up, so that a call failing on all its
\* max_retries + 1 attempts raises the count of consecutive failures by
\* exactly 1.
C40_OneRecordPerOperation ==
    /\ [][OneRecordPerCall]_vars
    /\ []FailedCallCountsOnce

\* Three attempts failed with transient errors on a fresh cache with a
\* threshold of 3: one failure is counted and the cache is DEGRADED.
C40_Witness ==
    \E frame \in FallbackFrames :
        /\ frame.pc = "returned"
        /\ frame.config.max_retries = 2
        /\ TransientAttempts(frame) = {1, 2, 3}
        /\ frame.records = <<"record_failure">>
        /\ FailuresAtCall(frame) = 0
        /\ connection_cache.failure_threshold = 3
        /\ connection_cache.consecutive_failures = 1
        /\ get_status(connection_cache) = "DEGRADED"

====
